---- MODULE Spec2Model ----
(***************************************************************************)
(* Verification model of the Universal Privacy Engine core:                *)
(*   - ZkAuditTrail       (core/src/logging/audit.rs)                      *)
(*   - RecordedTlsProof   (core/src/data_source/zktls.rs)                  *)
(*   - NotarySigner and its HTTP endpoint (core/src/notary/mod.rs,         *)
(*     core/src/main.rs)                                                   *)
(*   - RwaClaim, SchemaValidator and the compliance guest                  *)
(*     (core/src/rwa.rs, core/src/agent/validator.rs,                      *)
(*     guest/rwa_compliance/src/main.rs)                                   *)
(*   - the Merkle credentials generators (cli/src/bin/generate_inputs.rs,  *)
(*     scripts/generate_test_data.rs)                                      *)
(*                                                                         *)
(* Cryptographic primitives are modelled symbolically: SHA-256 and         *)
(* Keccak-256 are collision-free constructors over their input, an         *)
(* Ed25519 or ECDSA signature is a term naming its signing key and         *)
(* message.  Everything around them                                        *)
(* (serialisation, comparisons, integer arithmetic, the order of checks)   *)
(* is translated from the source.                                          *)
(***************************************************************************)
EXTENDS Integers, Sequences, FiniteSets, TLC

VARIABLES
    \* ---- ZkAuditTrail (audit.rs:89-98) ----
    entries,          \* Vec<AuditEntry>
    trail_hash,       \* [u8; 32]
    created_at,       \* i64
    integrity,        \* return value of the last verify_integrity() on this state
    mutation,         \* the direct field write done to the stored trail
                      \* (entry, field, value replaced), or NoMutation
    observed,         \* what the last read-only call on the trail returned
    \* ---- RecordedTlsProof (zktls.rs:26-38) and its verifier ----
    origin,           \* what the notary witnessed: signer, domain, cert, body
    proof,            \* the RecordedTlsProof in the holder's hands
    rewrites,         \* number of proof fields the holder has overwritten
    overflow_checks,  \* build profile: TRUE = overflow-checked (debug) build
    challenges,       \* the SHA-512 challenges that verifications have depended
                      \* on so far, each by its residue
    call,             \* arguments of the last verify() call
    result,           \* what that call returned
    \* ---- NotarySigner (notary/mod.rs:69-71) and its callers ----
    hash_log,         \* the create_message_hash calls made, in order
    issued,           \* the last NotarySigner::generate_proof call and its result
    recovery,         \* the last signer recovery run on the issued proof
    http,             \* the last POST /api/generate-proof exchange
    \* ---- RwaClaim (rwa.rs:62-95) and what is computed from it ----
    rwa_claim,        \* the claim in hand
    guest,            \* outcome of the guest program run on it
    public_values,    \* RwaPublicValues::from_claim of it
    validation,       \* SchemaValidator::validate of it
    to_sign,          \* message_to_sign() of it
    earlier,          \* the previous claim with its guest outcome and public values
    \* ---- RwaClaimWithProof (generate_inputs.rs:23-32) ----
    creds,            \* the credentials a generator emitted
    presented,        \* leaf index and proof hashes as presented to a verifier
    merkle_ok,        \* what the verifier answered
    \* ---- ZkInputBuilder (builder.rs:37-44) and its caller ----
    public_data,      \* Vec<Vec<u8>>
    secrets,          \* Vec<Secret<Vec<u8>>>
    last_op,          \* the last builder method called, with its argument
    built,            \* the bytes the last build() returned, if nothing was added since
    prev_built,       \* the bytes the build() before that returned
    accumulated,      \* the blobs handed to the builder since new() or clear(), in order
    \* ---- the guest program in the zkVM (guest main.rs:63-147), step by step ----
    zk_stdin,         \* the bytes the host wrote to the guest's stdin
    zk_pc,            \* where the guest is in main()
    zk_claim,         \* the RwaClaim the guest deserialised
    zk_journal,       \* the values committed so far
    zk_trace,         \* the steps the guest has completed, in order
    receipt,          \* what prove_rwa returned for this run
    \* ---- RwaVerifier contract on Stellar (verifiers/stellar/src/lib.rs:52-200) ----
    storage,          \* the contract's persistent storage
    events,           \* the events the contract has published
    invocation,       \* the last contract call, its arguments and its outcome
    \* ---- VeriVaultMcpServer (cli/src/mcp/server.rs:17-20) and its callers ----
    mcp_stdin,        \* the request lines written to the server's stdin and not yet read
    frames,           \* the tool calls the server has begun and not finished
    responses         \* the responses written to stdout, in order

auditVars == <<entries, trail_hash, created_at, integrity, mutation, observed>>

tlsVars == <<origin, proof, rewrites, overflow_checks, challenges, call, result>>

notaryVars == <<hash_log, issued, recovery, http>>

rwaVars == <<rwa_claim, guest, public_values, validation, to_sign, earlier>>

merkleVars == <<creds, presented, merkle_ok>>

builderVars == <<public_data, secrets, last_op, built, prev_built, accumulated>>

zkvmVars == <<zk_stdin, zk_pc, zk_claim, zk_journal, zk_trace, receipt>>

stellarVars == <<storage, events, invocation>>

mcpVars == <<mcp_stdin, frames, responses>>

vars == <<auditVars, tlsVars, notaryVars, rwaVars, merkleVars,
    builderVars,
    zkvmVars,
    stellarVars,
    mcpVars>>

\* everything outside one component
nonAuditVars == <<tlsVars, notaryVars, rwaVars, merkleVars,
    builderVars,
    zkvmVars,
    stellarVars,
    mcpVars>>

nonTlsVars == <<auditVars, notaryVars, rwaVars, merkleVars,
    builderVars,
    zkvmVars,
    stellarVars,
    mcpVars>>

nonNotaryVars == <<auditVars, tlsVars, rwaVars, merkleVars,
    builderVars,
    zkvmVars,
    stellarVars,
    mcpVars>>

nonRwaVars == <<auditVars, tlsVars, notaryVars, merkleVars,
    builderVars,
    zkvmVars,
    stellarVars,
    mcpVars>>

nonMerkleVars == <<auditVars, tlsVars, notaryVars, rwaVars,
    builderVars,
    zkvmVars,
    stellarVars,
    mcpVars>>

nonBuilderVars == <<auditVars, tlsVars, notaryVars, rwaVars, merkleVars,
    zkvmVars,
    stellarVars,
    mcpVars>>

nonZkvmVars == <<auditVars, tlsVars, notaryVars, rwaVars, merkleVars, builderVars,
    stellarVars,
    mcpVars>>

nonStellarVars == <<auditVars, tlsVars, notaryVars, rwaVars, merkleVars, builderVars, zkvmVars,
    mcpVars>>

\* everything outside the server and the audit trail it owns
nonMcpVars == <<tlsVars, notaryVars, rwaVars, merkleVars, builderVars, zkvmVars, stellarVars>>

(***************************************************************************)
(* Bounds of the model                                                     *)
(***************************************************************************)
\* Longest trail explored.
MaxEntries == 3

\* Number of proof fields a holder overwrites before presenting the proof.
MaxRewrites == 2

\* Number of signature bits a holder has flipped at one time.
MaxFlips == 1

\* Number of create_message_hash calls compared with one another.
MaxHashes == 2

(***************************************************************************)
(* SHA-256 (audit.rs:74-78): symbolic, collision-free.                     *)
(***************************************************************************)
sha256(data) == <<"sha256", data>>

\* [0u8; 32]  (audit.rs:105, 124)
ZERO_HASH == <<"bytes32", 0>>

\* some other 32 bytes that are no digest of anything the model hashes
ONES_HASH == <<"bytes32", 255>>

(***************************************************************************)
(* Input domains                                                           *)
(***************************************************************************)
\* enum AgentAction (audit.rs:11-17)
AgentAction == {"ExtractClaim", "GenerateProof", "SubmitToChain",
                "VerifyProof", "ExportVerifier"}

\* the actions the explored callers record
UsedActions == {"ExtractClaim", "GenerateProof"}

\* byte strings handed to add_entry as input / output / decision_logic
Blobs == {<<"bytes", "input1">>, <<"bytes", "input2">>}

\* f32 confidences: two in the documented range 0.0 - 1.0, and the
\* non-finite values the type also admits (add_entry validates nothing)
F32Finite    == {"0.9", "0.5"}
F32NonFinite == {"NaN", "inf"}
F32Values    == F32Finite \cup F32NonFinite

\* the confidences the explored callers pass to add_entry
UsedConfidences == {"0.9", "NaN"}

\* SystemTime::now() as seconds (audit.rs:59-62, 106-109), and the other
\* timestamps a stored entry can be made to carry
Clock == {1735128000}

OtherTimes == {0, 1735128001}

(***************************************************************************)
(* serde_json serialisation of an AuditEntry (derive(Serialize),           *)
(* audit.rs:20-45).  Integers, enum variants and byte arrays print         *)
(* injectively; serde_json prints every non-finite float as `null`.        *)
(***************************************************************************)
ser_f32(c) == IF c \in F32NonFinite THEN <<"null">> ELSE <<"f32", c>>

ser_entry(e) ==
    << "json-object",
       <<"timestamp", <<"i64", e.timestamp>> >>,
       <<"action", <<"variant", e.action>> >>,
       <<"input_hash", <<"array", e.input_hash>> >>,
       <<"output_hash", <<"array", e.output_hash>> >>,
       <<"decision_logic_hash", <<"array", e.decision_logic_hash>> >>,
       <<"confidence", ser_f32(e.confidence)>>,
       <<"previous_hash", <<"array", e.previous_hash>> >>,
       <<"nonce", <<"u64", e.nonce>> >> >>

\* serde_json::to_vec(&self.entries)
ser_entries(es) == <<"json-array", [i \in 1..Len(es) |-> ser_entry(es[i])]>>

\* AuditEntry::compute_hash (audit.rs:81-84)
compute_hash(e) == sha256(ser_entry(e))

\* an entry constructor that drops the position it is handed
AuditEntry_new_dropping_nonce(action, input, output, decision_logic, confidence, previous_hash, nonce, now) ==
    [ timestamp           |-> now,
      action              |-> action,
      input_hash          |-> sha256(input),
      output_hash         |-> sha256(output),
      decision_logic_hash |-> sha256(decision_logic),
      confidence          |-> confidence,
      previous_hash       |-> previous_hash,
      nonce               |-> 0 ]

\* AuditEntry::new (audit.rs:49-71)
AuditEntry_new(action, input, output, decision_logic, confidence, previous_hash, nonce, now) ==
    [ timestamp           |-> now,
      action              |-> action,
      input_hash          |-> sha256(input),
      output_hash         |-> sha256(output),
      decision_logic_hash |-> sha256(decision_logic),
      confidence          |-> confidence,
      previous_hash       |-> previous_hash,
      nonce               |-> nonce ]

\* the digest update_trail_hash stores (audit.rs:143-148)
update_trail_hash(es) == sha256(ser_entries(es))

\* ZkAuditTrail::verify_integrity (audit.rs:151-167)
verify_integrity(es, th) ==
    /\ \A i \in 2..Len(es) : es[i].previous_hash = compute_hash(es[i - 1])
    /\ sha256(ser_entries(es)) = th

(***************************************************************************)
(* ZkAuditTrail: state machine                                             *)
(***************************************************************************)
\* no field of the stored trail has been written directly
NoMutation == [index |-> 0, field |-> "none", old |-> 0]

\* no read-only call has been made on the trail as it stands
NoQuery == [op |-> "none", value |-> 0]

\* ZkAuditTrail::new (audit.rs:102-111)
AuditInit ==
    /\ entries = << >>
    /\ trail_hash = ZERO_HASH
    /\ created_at \in Clock
    /\ integrity = "none"
    /\ mutation = NoMutation
    /\ observed = NoQuery

\* an add_entry that keeps the trail newest-first
add_entry_newest_first(action, input, output, decision_logic, confidence, now) ==
    /\ Len(entries) < MaxEntries
    /\ LET previous_hash == IF entries = << >> THEN ZERO_HASH
                            ELSE compute_hash(entries[1])
           nonce == Len(entries)
           entry == AuditEntry_new(action, input, output, decision_logic,
                                   confidence, previous_hash, nonce, now)
       IN /\ entries' = <<entry>> \o entries
          /\ trail_hash' = update_trail_hash(entries')
    /\ integrity' = "none"
    /\ observed' = NoQuery
    /\ UNCHANGED <<created_at, mutation>>
    /\ UNCHANGED nonAuditVars

\* ZkAuditTrail::add_entry (audit.rs:114-140)
add_entry(action, input, output, decision_logic, confidence, now) ==
    /\ Len(entries) < MaxEntries
    /\ LET previous_hash == IF entries = << >> THEN ZERO_HASH
                            ELSE compute_hash(entries[Len(entries)])
           nonce == Len(entries)
           entry == AuditEntry_new(action, input, output, decision_logic,
                                   confidence, previous_hash, nonce, now)
       IN /\ entries' = Append(entries, entry)
          /\ trail_hash' = update_trail_hash(entries')
    /\ integrity' = "none"
    /\ observed' = NoQuery
    /\ UNCHANGED <<created_at, mutation>>
    /\ UNCHANGED nonAuditVars

AddEntry ==
    \E action \in UsedActions, input \in Blobs, confidence \in UsedConfidences,
       now \in Clock :
        add_entry(action, input, <<"bytes", "output">>, <<"bytes", "logic">>,
                  confidence, now)

\* a caller runs verify_integrity() and keeps the answer
VerifyIntegrity ==
    /\ integrity = "none"
    /\ integrity' = IF verify_integrity(entries, trail_hash)
                     THEN "true" ELSE "false"
    /\ UNCHANGED <<entries, trail_hash, created_at, mutation, observed>>
    /\ UNCHANGED nonAuditVars

\* serde_json::to_string_pretty(self) (audit.rs:170-172; derive(Serialize),
\* audit.rs:87-98): the three fields of the trail, in declaration order
export_json(es, th, ca) ==
    << "json-object",
       <<"entries", ser_entries(es)>>,
       <<"trail_hash", <<"array", th>> >>,
       <<"created_at", <<"i64", ca>> >> >>

\* ZkAuditTrail::len (audit.rs:175-177)
trail_len(es) == Len(es)

\* ZkAuditTrail::is_empty (audit.rs:180-182)
is_empty(es) == IF es = << >> THEN "true" ELSE "false"

\* a caller exports the trail and keeps the text
ExportJson ==
    /\ observed.op # "export_json"
    /\ observed' = [op |-> "export_json",
                    value |-> export_json(entries, trail_hash, created_at)]
    /\ UNCHANGED <<entries, trail_hash, created_at, integrity, mutation>>
    /\ UNCHANGED nonAuditVars

\* a caller asks for the number of entries
LenCall ==
    /\ observed.op # "len"
    /\ observed' = [op |-> "len", value |-> trail_len(entries)]
    /\ UNCHANGED <<entries, trail_hash, created_at, integrity, mutation>>
    /\ UNCHANGED nonAuditVars

\* a caller asks whether the trail is empty
IsEmpty ==
    /\ observed.op # "is_empty"
    /\ observed' = [op |-> "is_empty", value |-> is_empty(entries)]
    /\ UNCHANGED <<entries, trail_hash, created_at, integrity, mutation>>
    /\ UNCHANGED nonAuditVars

\* the values a direct write can put into a field of a stored entry
FieldNames == {"timestamp", "action", "input_hash", "output_hash",
               "decision_logic_hash", "confidence", "previous_hash", "nonce"}

Digests == {ZERO_HASH, ONES_HASH} \cup {sha256(b) : b \in Blobs}

FieldValues(f) ==
    CASE f = "timestamp"  -> Clock \cup OtherTimes
      [] f = "action"     -> AgentAction
      [] f = "confidence" -> F32Values
      [] f = "nonce"      -> 0..MaxEntries
      [] OTHER            -> Digests

\* A holder of the trail writes one public field of one stored entry
\* (`trail.entries[0].confidence = 0.5`, audit.rs:261-262) and leaves the
\* rest as stored.
Tamper ==
    /\ mutation = NoMutation
    /\ \E i \in 1..Len(entries), f \in FieldNames :
         \E v \in FieldValues(f) :
            /\ entries[i][f] # v
            /\ entries' = [entries EXCEPT ![i][f] = v]
            /\ mutation' = [index |-> i, field |-> f, old |-> entries[i][f]]
    /\ integrity' = "none"
    /\ UNCHANGED <<trail_hash, created_at, observed>>
    /\ UNCHANGED nonAuditVars

(***************************************************************************)
(* u64 arithmetic.  A u64 is four 16-bit limbs, most significant first,    *)
(* so that sums keep their 64-bit width.                                   *)
(***************************************************************************)
LIMB == 2^16

u64(n) == <<0, 0, n \div LIMB, n % LIMB>>

U64_MAX == <<LIMB - 1, LIMB - 1, LIMB - 1, LIMB - 1>>

\* limb-wise sum with carry: the 64-bit sum and the bit carried out of it
add_carry(x, y) ==
    LET s4 == x[4] + y[4]
        s3 == x[3] + y[3] + (s4 \div LIMB)
        s2 == x[2] + y[2] + (s3 \div LIMB)
        s1 == x[1] + y[1] + (s2 \div LIMB)
    IN [ sum   |-> <<s1 % LIMB, s2 % LIMB, s3 % LIMB, s4 % LIMB>>,
         carry |-> s1 \div LIMB ]

wrapping_add(x, y) == add_carry(x, y).sum

wrapping_sub(x, y) ==
    LET not_y == [i \in 1..4 |-> LIMB - 1 - y[i]]
    IN wrapping_add(wrapping_add(x, not_y), u64(1))

\* x < y on equally long limb sequences
limbs_lt(x, y) ==
    \E i \in 1..Len(x) :
        /\ x[i] < y[i]
        /\ \A j \in 1..(i - 1) : x[j] = y[j]

(***************************************************************************)
(* RecordedTlsProof: hashing, signing, verification                        *)
(***************************************************************************)
\* const MAX_FUTURE_SKEW_SECS: u64 = 300  (zktls.rs:66)
MAX_FUTURE_SKEW_SECS == 300

\* sha256_hex (zktls.rs:142-146): lower-case hex of the digest
sha256_hex(data) == <<"hex", sha256(<<"bytes", data>>)>>

\* format!("{}:{}:{}:{}", domain, timestamp, response_hash, cert_chain_hash)
\* (zktls.rs:92-95); the decimal print of a u64 is injective
canonical_message(domain, timestamp, response_hash, cert_chain_hash) ==
    <<"msg", domain, <<"dec", timestamp>>, response_hash, cert_chain_hash>>

\* hex::encode of a byte string: valid hex, `len` bytes long
hex_encode(len, val) == [hex |-> TRUE, len |-> len, val |-> val]

\* VerifyingKey bytes of a notary, and its Ed25519 signature over a message
verifying_key(notary) == <<"ed25519-pk", notary>>

sign(notary, message) == <<"ed25519-sig", notary, message>>

\* ---- Ed25519 as ed25519-dalek 2 verifies it ----
\* A point of the curve is [a]B + [j]T: B the base point, of prime order
\* L, and T a point of order 8.  A notary's key is [a]B for the secret a
\* that the notary holds.  The eight points [j]T have no secret behind
\* them; as 32 bytes they are
\*     j = 0   01 00..00      the neutral element
\*     j = 4   ec ff..ff 7f   (0, -1), of order 2
\*     j = 2   00 00..00      of order 4
\*     j = 6   00 00..00 80   of order 4, the negative of the one above
\*     j = 1   c7 17..03 fa   of order 8, as [3]T, [5]T and [7]T are
\* and VerifyingKey::from_bytes (zktls.rs:129-130) parses each of them, as
\* it parses any point of the curve.
small_order_key(j) == <<"ed25519-pk", "no one", j>>

\* the 64 bytes 01 00..00 || 00..00 that nobody signed: R the neutral
\* element, s = 0
neutral_signature == <<"01 00..00", "00..00">>

\* Signature::to_bytes (capture_zktls.rs:80): the 64 bytes R || s of a
\* signature, held as the signature they were made from and the set of
\* bits flipped since
to_bytes(signature) == <<signature, {}>>

\* Bits of the 64 bytes: 0 and 1 are the two lowest bits of the first byte
\* of R (of its y), 255 is the highest bit of the last byte of R (the
\* sign of its x), 256 the lowest bit of s.  A bit of R other than 0 and
\* 255 acts as bit 1 does, a bit of s as bit 256 does.
SigBits == {0, 1, 255, 256}

\* One bit of the signature bytes flipped, where `sig_bytes[0] ^= 0xFF`
\* (tests/zktls_verification.rs:85-86) flips eight of them; flipping a bit
\* twice restores the bytes.
flip_bit(bytes, b) == <<bytes[1], (bytes[2] \ {b}) \cup ({b} \ bytes[2])>>

\* the first 32 of the 64 bytes
R_bytes(bytes) == <<bytes[1], bytes[2] \cap {0, 1, 255}>>

\* The point [i]T whose compression the first 32 bytes of
\* neutral_signature are once the bits `flips` are flipped: 01 00..00 is
\* [0]T, 00 00..00 is [2]T and 00 00..00 80 is [6]T.  The others are the
\* compression of no [i]T (-1): 01 00..00 80 reads as x = 0 with the sign
\* of a negative x, and with bit 1 flipped y is 2 or 3.
small_order_R(flips) ==
    CASE flips \cap {0, 1, 255} = {}       -> 0
      [] flips \cap {0, 1, 255} = {0}      -> 2
      [] flips \cap {0, 1, 255} = {0, 255} -> 6
      [] OTHER                             -> -1

\* the order of [j]T
order_of(j) ==
    CASE j = 0         -> 1
      [] j = 4         -> 2
      [] j \in {2, 6}  -> 4
      [] OTHER         -> 8

\* VerifyingKey::verify computes k = SHA-512(R || A || M) mod L.  Under a
\* key [j]T only k mod the order of [j]T bears on the outcome, and that
\* residue is what `ks` holds for the bytes hashed.
compute_challenge(R, A, M, ks) == ks[<<R, A, M>>]

\* the signature check under `pk` turns on the value of the challenge:
\* the key is some [j]T other than the neutral element, and the bytes are
\* the compression of a point [i]T followed by s = 0
depends_on_challenge(pk, bytes) ==
    /\ Len(pk) = 3
    /\ pk[3] # 0
    /\ Len(bytes[1]) = 2
    /\ 256 \notin bytes[2]
    /\ small_order_R(bytes[2]) # -1

\* VerifyingKey::verify (zktls.rs:136-138) accepts when the compression
\* of [s]B - [k]A is, byte for byte, R.  It is not verify_strict: a key of
\* small order is a key like any other.
\*   - The bytes of a notary's signature over M' verify under that
\*     notary's key for M = M' with no bit flipped, and under nothing
\*     else: any flipped bit changes R or s, and a key [j]T would need
\*     s = r.
\*   - neutral_signature with bits flipped is 32 bytes R followed by
\*     s = 0 or 1.  With R = [i]T, s = 0 and A = [j]T the equation reads
\*     [i]T = -[k][j]T; with s = 1 it would need R = B + [i]T, and under a
\*     notary's key there is no solution without the secret.
ed25519_verify(pk, message, bytes, ks) ==
    LET signature == bytes[1]
        flips     == bytes[2]
    IN IF Len(signature) = 3
       THEN /\ flips = {}
            /\ Len(pk) = 2
            /\ pk[2] = signature[2]
            /\ message = signature[3]
       ELSE /\ Len(pk) = 3
            /\ 256 \notin flips
            /\ small_order_R(flips) # -1
            /\ LET k == IF pk[3] = 0 THEN 0
                        ELSE compute_challenge(R_bytes(bytes), pk, message, ks)
               IN small_order_R(flips) = (8 - ((k * pk[3]) % 8)) % 8

\* the errors (zktls.rs:8-23), the success value and an arithmetic panic
Ok == [kind |-> "Ok"]

DomainMismatch(expected, got) ==
    [kind |-> "DomainMismatch", expected |-> expected, got |-> got]

CertChainMismatch == [kind |-> "CertChainMismatch"]

ResponseTampered == [kind |-> "ResponseTampered"]

ReplayDetected(timestamp, max_age) ==
    [kind |-> "ReplayDetected", timestamp |-> timestamp, max_age |-> max_age]

SignatureInvalid(why) == [kind |-> "SignatureInvalid", why |-> why]

Panic == [kind |-> "panic", why |-> "attempt to add with overflow"]

\* RecordedTlsProof::verify_signature (zktls.rs:90-139)
verify_signature(self, ks) ==
    LET message == canonical_message(self.domain, self.timestamp,
                                     self.response_hash, self.cert_chain_hash)
        pk  == self.notary_pubkey
        sig == self.signature
    IN IF ~pk.hex THEN SignatureInvalid("Bad hex in notary_pubkey")
       ELSE IF pk.len # 32 THEN SignatureInvalid("Invalid public key length")
       ELSE IF ~sig.hex THEN SignatureInvalid("Bad hex in signature")
       ELSE IF sig.len # 64 THEN SignatureInvalid("Invalid signature length")
       ELSE IF pk.val[1] # "ed25519-pk"
            THEN SignatureInvalid("VerifyingKey parse error")
       ELSE IF ~ed25519_verify(pk.val, message, sig.val, ks)
            THEN SignatureInvalid("Cryptographic verification failed")
       ELSE Ok

\* (mutant) the two fields of the error filled the other way round
domain_error_swapped(self, expected_domain) ==
    DomainMismatch(self.domain, expected_domain)

\* the error of the domain check (zktls.rs:51-54)
domain_error(self, expected_domain) ==
    DomainMismatch(expected_domain, self.domain)

\* `current_time > self.timestamp + max_age_secs` (zktls.rs:58), the sum
\* already taken in 64 bits
too_old(current_time, deadline) == limbs_lt(deadline, current_time)

\* `self.timestamp > current_time + MAX_FUTURE_SKEW_SECS` (zktls.rs:67)
too_new(timestamp, horizon) == limbs_lt(horizon, timestamp)

\* RecordedTlsProof::verify (zktls.rs:41-88).  `checked` is the build's
\* overflow-checks setting: a u64 sum that overflows panics when it is on
\* and wraps when it is off; `ks` holds the SHA-512 challenges.
verify(self, expected_domain, cert_chain_pem, response_body, current_time, max_age_secs, checked, ks) ==
    LET deadline == add_carry(self.timestamp, max_age_secs)
        horizon  == add_carry(current_time, u64(MAX_FUTURE_SKEW_SECS))
    IN IF self.domain # expected_domain
            THEN domain_error(self, expected_domain)
       ELSE IF checked /\ deadline.carry = 1 THEN Panic
       ELSE IF too_old(current_time, deadline.sum)
            THEN ReplayDetected(self.timestamp, max_age_secs)
       ELSE IF checked /\ horizon.carry = 1 THEN Panic
       ELSE IF too_new(self.timestamp, horizon.sum)
            THEN SignatureInvalid("Timestamp is in the future")
       ELSE IF sha256_hex(cert_chain_pem) # self.cert_chain_hash
            THEN CertChainMismatch
       ELSE IF sha256_hex(response_body) # self.response_hash
            THEN ResponseTampered
       ELSE verify_signature(self, ks)

\* The notary's capture (scripts/src/bin/capture_zktls.rs:66-89): hash what
\* was witnessed, sign the canonical message, publish the proof.
capture_proof(notary, domain, timestamp, cert_chain_pem, response_body) ==
    LET response_hash   == sha256_hex(response_body)
        cert_chain_hash == sha256_hex(cert_chain_pem)
        message == canonical_message(domain, timestamp, response_hash,
                                     cert_chain_hash)
    IN [ domain          |-> domain,
         timestamp       |-> timestamp,
         response_hash   |-> response_hash,
         cert_chain_hash |-> cert_chain_hash,
         notary_pubkey   |-> hex_encode(32, verifying_key(notary)),
         signature       |-> hex_encode(64, to_bytes(sign(notary, message))) ]

(***************************************************************************)
(* RecordedTlsProof: input domains                                         *)
(***************************************************************************)
Notaries == {"notary1", "notary2"}

Domains == {"example.com", "evil.example"}

\* let timestamp = 1735128000 (capture_zktls.rs:53), as limbs
FIXTURE_TS == u64(1735128000)

Timestamps == {u64(200), FIXTURE_TS}

\* byte strings: the witnessed one, and those one byte away from it
WitnessedBytes == <<7, 7>>

PresentedBytes == {WitnessedBytes, <<7, 8>>}

MaxAges == {u64(0), u64(3600), U64_MAX}

\* current times around the two freshness boundaries of a proof
CurrentTimes(timestamp, max_age) ==
    { u64(0),
      wrapping_sub(timestamp, u64(MAX_FUTURE_SKEW_SECS + 1)),
      wrapping_sub(timestamp, u64(MAX_FUTURE_SKEW_SECS)),
      wrapping_add(timestamp, u64(100)),
      wrapping_add(timestamp, max_age),
      wrapping_add(wrapping_add(timestamp, max_age), u64(1)),
      U64_MAX }

\* the keys of small order a holder tries: the neutral element, the
\* point of order 2, the two of order 4 and one of order 8
SmallOrders == {0, 4, 2, 6, 1}

\* the signature field holds 64 bytes
holds_signature(p) == p.signature.hex /\ p.signature.len = 64

\* what a holder can write into a field of the proof
ProofFieldValues(f, p) ==
    CASE f = "domain"    -> Domains
      [] f = "timestamp" -> Timestamps \cup {U64_MAX}
      [] f \in {"response_hash", "cert_chain_hash"} ->
            {sha256_hex(b) : b \in PresentedBytes}
      [] f = "notary_pubkey" ->
            {hex_encode(32, verifying_key(n)) : n \in Notaries} \cup
            {hex_encode(32, small_order_key(j)) : j \in SmallOrders} \cup
            { [hex |-> FALSE, len |-> 0, val |-> <<"not hex">>],
              hex_encode(31, <<"truncated">>),
              hex_encode(32, <<"not a curve point">>) }
      [] f = "signature" ->
            { hex_encode(64, to_bytes(sign(n,
                  canonical_message(p.domain, p.timestamp, p.response_hash,
                                    p.cert_chain_hash))))
                : n \in Notaries } \cup
            { [hex |-> FALSE, len |-> 0, val |-> <<"not hex">>],
              hex_encode(63, <<"truncated">>),
              hex_encode(64, to_bytes(neutral_signature)) }

ProofFields == {"domain", "timestamp", "response_hash", "cert_chain_hash",
                "notary_pubkey", "signature"}

(***************************************************************************)
(* RecordedTlsProof: state machine                                         *)
(***************************************************************************)
NoCall == [expected_domain |-> "", cert_chain_pem |-> << >>,
           response_body |-> << >>, current_time |-> u64(0),
           max_age_secs |-> u64(0)]

\* no challenge computed yet
NoChallenges == [q \in {} |-> 0]

\* what verify_signature hashes for a proof: R, the key bytes and the
\* canonical message
challenge_input(p) ==
    <<R_bytes(p.signature.val), p.notary_pubkey.val,
      canonical_message(p.domain, p.timestamp, p.response_hash,
                        p.cert_chain_hash)>>

\* the signature check of the proof turns on a challenge
asks_challenge(p) ==
    /\ p.notary_pubkey.hex
    /\ p.notary_pubkey.len = 32
    /\ holds_signature(p)
    /\ p.notary_pubkey.val[1] = "ed25519-pk"
    /\ depends_on_challenge(p.notary_pubkey.val, p.signature.val)

\* the challenges once that of the proof is known to have residue k;
\* SHA-512 is a function, so a challenge computed before stays as it is
with_challenge(ks, p, k) ==
    IF asks_challenge(p) /\ challenge_input(p) \notin DOMAIN ks
    THEN ks @@ (challenge_input(p) :> k)
    ELSE ks

\* the residues the challenge of the proof can have, as far as the terms
\* of this model tell: any, until it is computed
Residues(ks, p) ==
    IF asks_challenge(p) /\ challenge_input(p) \notin DOMAIN ks
    THEN 0..(order_of(p.notary_pubkey.val[3]) - 1)
    ELSE {0}

\* a notary has witnessed a session and published its proof
TlsInit ==
    /\ origin \in [notary : {"notary1"}, domain : {"example.com"},
                   timestamp : Timestamps, cert_chain_pem : {WitnessedBytes},
                   response_body : {WitnessedBytes}]
    /\ proof = capture_proof(origin.notary, origin.domain, origin.timestamp,
                             origin.cert_chain_pem, origin.response_body)
    /\ rewrites = 0
    /\ overflow_checks \in BOOLEAN
    /\ challenges = NoChallenges
    /\ call = NoCall
    /\ result = [kind |-> "none"]

\* A holder overwrites one field of the proof before presenting it
\* (tests/zktls_verification.rs:112).
Rewrite ==
    /\ result.kind = "none"
    /\ rewrites < MaxRewrites
    /\ \E f \in ProofFields :
         \E v \in ProofFieldValues(f, proof) :
            /\ proof[f] # v
            /\ proof' = [proof EXCEPT ![f] = v]
    /\ rewrites' = rewrites + 1
    /\ UNCHANGED <<origin, overflow_checks, challenges, call, result>>
    /\ UNCHANGED nonTlsVars

\* A holder flips one bit of the signature bytes and writes them back
\* (tests/zktls_verification.rs:84-87); flipping a flipped bit restores
\* it.
FlipBit ==
    /\ result.kind = "none"
    /\ holds_signature(proof)
    /\ \E b \in SigBits :
         \E flipped \in {flip_bit(proof.signature.val, b)} :
            /\ Cardinality(flipped[2]) <= MaxFlips
            /\ proof' = [proof EXCEPT !.signature = hex_encode(64, flipped)]
    /\ UNCHANGED <<origin, rewrites, overflow_checks, challenges, call, result>>
    /\ UNCHANGED nonTlsVars

\* The call has returned and the holder goes on with the proof, which
\* verify left as it was (`&self`, zktls.rs:42).
TakeBack ==
    /\ result.kind # "none"
    /\ call' = NoCall
    /\ result' = [kind |-> "none"]
    /\ UNCHANGED <<origin, proof, rewrites, overflow_checks, challenges>>
    /\ UNCHANGED nonTlsVars

\* proof.verify(expected_domain, cert, body, current_time, max_age)
Verify ==
    /\ result.kind = "none"
    /\ \E expected_domain \in Domains, cert_chain_pem \in PresentedBytes,
       response_body \in PresentedBytes, max_age_secs \in MaxAges :
      \E current_time \in CurrentTimes(proof.timestamp, max_age_secs) :
       \E k \in Residues(challenges, proof) :
        \E ks \in {with_challenge(challenges, proof, k)} :
        /\ call' = [ expected_domain |-> expected_domain,
                     cert_chain_pem  |-> cert_chain_pem,
                     response_body   |-> response_body,
                     current_time    |-> current_time,
                     max_age_secs    |-> max_age_secs ]
        /\ challenges' = ks
        /\ result' = verify(proof, expected_domain, cert_chain_pem,
                            response_body, current_time, max_age_secs,
                            overflow_checks, ks)
        /\ UNCHANGED <<origin, proof, rewrites, overflow_checks>>
        /\ UNCHANGED nonTlsVars

(***************************************************************************)
(* NotarySigner                                                            *)
(***************************************************************************)
None == [kind |-> "none"]

\* a signer just built by NotarySigner::new (notary/mod.rs:75-79): nothing
\* hashed, issued, recovered or served yet
NotaryInit ==
    /\ hash_log = << >>
    /\ issued = None
    /\ recovery = None
    /\ http = None

\* ---- strings: sequences of characters ----
Repeat(c, n) == [i \in 1..n |-> c]

LowerHex == <<"0", "1", "2", "3", "4", "5", "6", "7", "8", "9",
              "a", "b", "c", "d", "e", "f">>

UpperHex == <<"0", "1", "2", "3", "4", "5", "6", "7", "8", "9",
              "A", "B", "C", "D", "E", "F">>

\* value of a hex digit of either case, -1 for any other character
hex_val(c) ==
    IF \E i \in 1..16 : LowerHex[i] = c
        THEN (CHOOSE i \in 1..16 : LowerHex[i] = c) - 1
    ELSE IF \E i \in 1..16 : UpperHex[i] = c
        THEN (CHOOSE i \in 1..16 : UpperHex[i] = c) - 1
    ELSE -1

\* bytes of a character in UTF-8: two for the one non-ASCII character used
utf8_len(c) == IF c = "e-acute" THEN 2 ELSE 1

\* str::len(): the length in bytes
RECURSIVE str_len(_)
str_len(s) == IF s = << >> THEN 0 ELSE utf8_len(Head(s)) + str_len(Tail(s))

\* str::starts_with
starts_with(s, prefix) ==
    /\ Len(s) >= Len(prefix)
    /\ SubSeq(s, 1, Len(prefix)) = prefix

\* u64::to_string (notary/mod.rs:143): decimal digits, no leading zero
RECURSIVE to_string(_)
to_string(n) ==
    IF n < 10 THEN <<LowerHex[n + 1]>>
    ELSE Append(to_string(n \div 10), LowerHex[(n % 10) + 1])

\* U256::from_dec_str on a digit string, as a number
RECURSIVE from_dec_str(_)
from_dec_str(s) ==
    IF s = << >> THEN 0
    ELSE 10 * from_dec_str(SubSeq(s, 1, Len(s) - 1)) + hex_val(s[Len(s)])

\* Address::from_str (notary/mod.rs:114): an optional "0x", then exactly
\* 40 hex digits giving the 20 bytes
Address_from_str(s) ==
    LET input == IF starts_with(s, <<"0", "x">>)
                 THEN SubSeq(s, 3, Len(s)) ELSE s
    IN IF Len(input) = 40 /\ \A i \in 1..40 : hex_val(input[i]) >= 0
       THEN [ ok    |-> TRUE,
              bytes |-> [i \in 1..20 |-> 16 * hex_val(input[2 * i - 1])
                                         + hex_val(input[2 * i])] ]
       ELSE [ ok |-> FALSE, bytes |-> << >> ]

\* ---- U256: sixteen 16-bit limbs, most significant first ----
\* U256::from(u64) (notary/mod.rs:122, 128)
U256_from(x) == [i \in 1..16 |-> IF i <= 12 THEN 0 ELSE x[i - 12]]

\* (mutant) the bytes written least significant first
to_little_endian(x) ==
    [i \in 1..(2 * Len(x)) |->
        IF i % 2 = 1 THEN x[Len(x) - ((i + 1) \div 2) + 1] % 256
                     ELSE x[Len(x) - (i \div 2) + 1] \div 256]

\* U256::to_big_endian (notary/mod.rs:100, 103): 32 bytes, most
\* significant first
to_big_endian(x) ==
    [i \in 1..(2 * Len(x)) |->
        IF i % 2 = 1 THEN x[(i + 1) \div 2] \div 256
                     ELSE x[i \div 2] % 256]

\* Keccak256::digest (notary/mod.rs:105): symbolic, collision-free
keccak256(bytes) == <<"keccak256", bytes>>

\* the 84-byte buffer of create_message_hash (notary/mod.rs:94-103)
encode_packed(employee, salary, timestamp) ==
    employee \o to_big_endian(salary) \o to_big_endian(timestamp)

\* (mutant) the timestamp left out of what is hashed
create_message_hash_without_timestamp(employee, salary, timestamp) ==
    keccak256(employee \o to_big_endian(salary) \o Repeat(0, 32))

\* NotarySigner::create_message_hash (notary/mod.rs:93-107)
create_message_hash(employee, salary, timestamp) ==
    keccak256(encode_packed(employee, salary, timestamp))

\* ethers hash_message (notary/mod.rs:134-135, 213): the EIP-191 digest
\* keccak256("\x19Ethereum Signed Message:\n32" || hash)
hash_message(hash) == keccak256(<<"\\x19Ethereum Signed Message:\\n32", hash>>)

\* ---- secp256k1 ECDSA, symbolic ----
\* the wallet's key (TEST_KEY, notary/mod.rs:160)
NotaryKey == "notary-key"

\* LocalWallet::address / NotarySigner::address (notary/mod.rs:82-84)
address_of(key) == <<"address-of", key>>

\* wallet.sign_message after the prefix (notary/mod.rs:136-139)
ecdsa_sign(key, digest) == <<"ecdsa-sig", key, digest>>

\* Signature::recover (notary/mod.rs:214, 249): the signer's address for
\* the digest that was signed, an address nobody holds for any other
recover(sig, digest) ==
    IF sig[3] = digest THEN address_of(sig[2])
    ELSE <<"address-of", "nobody", sig, digest>>

\* format!("0x{}", hex::encode(..)) and format!("{:#x}", ..)
\* (notary/mod.rs:145-146), and their parsers
hex_0x(bytes) == <<"0x-hex", bytes>>

from_hex_0x(s) == s[2]

\* let salary_raw: u64 = 75_000 (notary/mod.rs:121)
salary_raw == 75000

\* (mutant) the salary left out of what is signed
generate_proof_unbound_salary(wallet_signs, employee_address, now) ==
    LET employee == Address_from_str(employee_address)
        message_hash == create_message_hash(employee.bytes,
                            U256_from(u64(0)), U256_from(now))
    IN IF ~employee.ok
           THEN [kind |-> "Err", err |-> "InvalidAddress", signed |-> {}]
       ELSE IF ~wallet_signs
           THEN [kind |-> "Err", err |-> "SigningFailed", signed |-> {}]
       ELSE [ kind   |-> "Ok",
              proof  |-> [ salary    |-> to_string(salary_raw),
                           timestamp |-> now,
                           signature |-> hex_0x(ecdsa_sign(NotaryKey,
                                            hash_message(message_hash))),
                           notary_pubkey |-> hex_0x(address_of(NotaryKey)) ],
              signed |-> {hash_message(message_hash)} ]

\* NotarySigner::generate_proof (notary/mod.rs:113-148).  `now` is
\* SystemTime::now() in seconds; `wallet_signs` is whether
\* wallet.sign_message returned Ok.  `signed` collects the digests the
\* wallet signed during the call.
generate_proof(wallet_signs, employee_address, now) ==
    LET employee == Address_from_str(employee_address)
        message_hash == create_message_hash(employee.bytes,
                            U256_from(u64(salary_raw)), U256_from(now))
    IN IF ~employee.ok
           THEN [kind |-> "Err", err |-> "InvalidAddress", signed |-> {}]
       ELSE IF ~wallet_signs
           THEN [kind |-> "Err", err |-> "SigningFailed", signed |-> {}]
       ELSE [ kind   |-> "Ok",
              proof  |-> [ salary    |-> to_string(salary_raw),
                           timestamp |-> now,
                           signature |-> hex_0x(ecdsa_sign(NotaryKey,
                                            hash_message(message_hash))),
                           notary_pubkey |-> hex_0x(address_of(NotaryKey)) ],
              signed |-> {hash_message(message_hash)} ]

\* POST /api/generate-proof (core/src/main.rs:106-136)
handle_generate_proof(wallet_signs, employee_address, now) ==
    IF ~starts_with(employee_address, <<"0", "x">>)
       \/ str_len(employee_address) # 42
    THEN [ kind |-> "response", employee_address |-> employee_address,
           status |-> 400, err |-> "Invalid employee address format",
           body |-> None, signed |-> {} ]
    ELSE LET r == generate_proof(wallet_signs, employee_address, now)
         IN IF r.kind = "Ok"
            THEN [ kind |-> "response", employee_address |-> employee_address,
                   status |-> 200, err |-> "", body |-> r.proof,
                   signed |-> r.signed ]
            ELSE [ kind |-> "response", employee_address |-> employee_address,
                   status |-> 500, err |-> r.err, body |-> None,
                   signed |-> r.signed ]

\* ---- input domains ----
\* "0x06deedD21AfE4ae6BFb443A4f560aD13d81e05a7" (notary/mod.rs:175)
TestEmployee ==
    <<"0", "x",
       "0", "6", "d", "e", "e", "d", "D", "2", "1", "A", "f",
       "E", "4", "a", "e", "6", "B", "F", "b", "4", "4", "3",
       "A", "4", "f", "5", "6", "0", "a", "D", "1", "3", "d",
       "8", "1", "e", "0", "5", "a", "7">>

\* the employee_address strings sent: two well-formed ones, then 40 hex
\* digits without prefix, "0x" and 40 characters that are not hex, a digit
\* short, 42 hex digits without prefix, a capital prefix, 42 bytes ending
\* in a two-byte character, and the empty string
EmployeeAddresses ==
    { TestEmployee,
      <<"0", "x">> \o Repeat("a", 40),
      Repeat("a", 40),
      <<"0", "x">> \o Repeat("g", 40),
      <<"0", "x">> \o Repeat("a", 39),
      Repeat("a", 42),
      <<"0", "X">> \o Repeat("a", 40),
      <<"0", "x">> \o Repeat("a", 38) \o <<"e-acute">>,
      << >> }

\* SystemTime::now() in seconds (notary/mod.rs:124-127)
NotaryClock == {u64(1700000000), u64(1700000001)}

\* the 20-byte addresses create_message_hash is given
Employees ==
    {Address_from_str(a).bytes : a \in {e \in EmployeeAddresses :
                                            Address_from_str(e).ok}}

\* a 256-bit value with every byte different
WideU256 == [i \in 1..16 |-> 256 * (2 * i - 1) + 2 * i]

\* salaries (notary/mod.rs:177, 188, 234-235) and timestamps handed to
\* create_message_hash
Salaries == {U256_from(u64(salary_raw)), U256_from(u64(99999)),
             U256_from(u64(150000)), WideU256}

HashTimestamps == {U256_from(t) : t \in NotaryClock} \cup {WideU256}

\* ---- state machine ----
\* a direct call of create_message_hash, its inputs and hash kept
CreateMessageHash ==
    /\ Len(hash_log) < MaxHashes
    /\ \E employee \in Employees, salary \in Salaries,
          timestamp \in HashTimestamps :
         hash_log' = Append(hash_log,
                        [ employee  |-> employee,
                          salary    |-> salary,
                          timestamp |-> timestamp,
                          hash      |-> create_message_hash(employee, salary,
                                                            timestamp) ])
    /\ UNCHANGED <<issued, recovery, http>>
    /\ UNCHANGED nonNotaryVars

\* a direct call of NotarySigner::generate_proof
GenerateProof ==
    /\ \E employee_address \in EmployeeAddresses, now \in NotaryClock,
          wallet_signs \in BOOLEAN :
         issued' = [ kind |-> "call",
                     employee_address |-> employee_address,
                     result |-> generate_proof(wallet_signs,
                                               employee_address, now) ]
    /\ recovery' = None
    /\ UNCHANGED <<hash_log, http>>
    /\ UNCHANGED nonNotaryVars

\* A verifier rebuilds the hash from the values it is shown and recovers
\* the signer of the issued signature (notary/mod.rs:204-214, 238-249).
Recover ==
    /\ issued.kind = "call"
    /\ issued.result.kind = "Ok"
    /\ \E employee \in Employees,
          salary \in {U256_from(u64(salary_raw)), U256_from(u64(150000))},
          timestamp \in NotaryClock :
         LET message_hash == create_message_hash(employee, salary,
                                                 U256_from(timestamp))
             sig == from_hex_0x(issued.result.proof.signature)
         IN recovery' = [ kind      |-> "done",
                          employee  |-> employee,
                          salary    |-> salary,
                          timestamp |-> timestamp,
                          recovered |-> recover(sig,
                                           hash_message(message_hash)) ]
    /\ UNCHANGED <<hash_log, issued, http>>
    /\ UNCHANGED nonNotaryVars

\* one request served by the endpoint
PostGenerateProof ==
    /\ \E employee_address \in EmployeeAddresses, now \in NotaryClock,
          wallet_signs \in BOOLEAN :
         http' = handle_generate_proof(wallet_signs, employee_address, now)
    /\ UNCHANGED <<hash_log, issued, recovery>>
    /\ UNCHANGED nonNotaryVars

(***************************************************************************)
(* RwaClaim                                                                *)
(***************************************************************************)
\* no claim built yet
RwaInit ==
    /\ rwa_claim = None
    /\ guest = None
    /\ public_values = None
    /\ validation = None
    /\ to_sign = None
    /\ earlier = None

\* (mutant) the bytes most significant first
to_be_bytes(x) ==
    [i \in 1..8 |-> IF i % 2 = 1 THEN x[(i + 1) \div 2] \div 256
                                 ELSE x[i \div 2] % 256]

\* u64::to_le_bytes (rwa.rs:140; guest main.rs:97): 8 bytes, least
\* significant first
to_le_bytes(x) ==
    [i \in 1..8 |-> IF i % 2 = 1 THEN x[4 - ((i - 1) \div 2)] % 256
                                 ELSE x[4 - ((i - 1) \div 2)] \div 256]

\* [0u8; 32] and [0u8; 64] (validator.rs:36, 41)
ZERO_PUBKEY == <<"bytes32", "zeros">>

ZERO_SIGNATURE == <<"bytes64", "zeros">>

\* 100_000_000_000 (validator.rs:46), as limbs
LARGE_BALANCE == <<0, 23, 18550, 59392>>

\* RwaClaim::new (rwa.rs:117-129)
RwaClaim_new(institutional_pubkey, balance, threshold, signature) ==
    [ kind                 |-> "claim",
      institutional_pubkey |-> institutional_pubkey,
      balance              |-> balance,
      threshold            |-> threshold,
      signature            |-> signature ]

\* (mutant) the message written most significant byte first
message_to_sign_big_endian(self) == to_be_bytes(self.balance)

\* RwaClaim::message_to_sign (rwa.rs:139-141)
message_to_sign(self) == to_le_bytes(self.balance)

\* (mutant) the balance copied into the public values
from_claim_with_balance(claim) ==
    [ kind                 |-> "public values",
      institutional_pubkey |-> claim.institutional_pubkey,
      threshold            |-> claim.threshold,
      balance              |-> claim.balance ]

\* RwaPublicValues::from_claim (rwa.rs:162-167)
from_claim(claim) ==
    [ kind                 |-> "public values",
      institutional_pubkey |-> claim.institutional_pubkey,
      threshold            |-> claim.threshold ]

\* sp1_zkvm::lib::verify_ed25519 (guest main.rs:99-103): only a signature
\* made with the key behind `pubkey`, over `msg`, verifies
verify_ed25519(signature, pubkey, msg) ==
    /\ pubkey[1] = "ed25519-pk"
    /\ signature = sign(pubkey[2], msg)

\* sp1_zkvm::io::commit of one value (guest main.rs:146-147)
commit(bytes) == <<"commit", bytes>>

\* the guest program (guest main.rs:63-163) on a claim that deserialised:
\* the signed message, then a panic or the committed journal
guest_main(claim) ==
    LET msg == to_le_bytes(claim.balance)
    IN IF ~verify_ed25519(claim.signature, claim.institutional_pubkey, msg)
           THEN [ kind |-> "panic", message |-> msg, journal |-> << >>,
                  why |-> "Ed25519 signature verification failed" ]
       ELSE IF limbs_lt(claim.balance, claim.threshold)
           THEN [ kind |-> "panic", message |-> msg, journal |-> << >>,
                  why |-> "Compliance check failed" ]
       ELSE [ kind |-> "committed", message |-> msg, why |-> "",
              journal |-> << commit(claim.institutional_pubkey),
                             commit(<<"u64", to_le_bytes(claim.threshold)>>) >> ]

\* (mutant) a warning also makes the claim invalid
validate_strict(claim) ==
    LET errors ==
            (IF claim.balance = u64(0)
                THEN <<"Balance cannot be zero">> ELSE << >>)
            \o (IF limbs_lt(claim.balance, claim.threshold)
                THEN <<"Threshold cannot exceed balance">> ELSE << >>)
        warnings ==
            (IF claim.institutional_pubkey = ZERO_PUBKEY
                THEN <<"Institutional pubkey appears to be placeholder">>
                ELSE << >>)
            \o (IF claim.signature = ZERO_SIGNATURE
                THEN <<"Signature appears to be placeholder">> ELSE << >>)
            \o (IF limbs_lt(LARGE_BALANCE, claim.balance)
                THEN <<"Balance exceeds $1 billion - please verify">>
                ELSE << >>)
    IN [ kind     |-> "result",
         is_valid |-> (errors = << >> /\ warnings = << >>),
         errors   |-> errors,
         warnings |-> warnings ]

\* SchemaValidator::validate (validator.rs:21-55)
validate(claim) ==
    LET errors ==
            (IF claim.balance = u64(0)
                THEN <<"Balance cannot be zero">> ELSE << >>)
            \o (IF limbs_lt(claim.balance, claim.threshold)
                THEN <<"Threshold cannot exceed balance">> ELSE << >>)
        warnings ==
            (IF claim.institutional_pubkey = ZERO_PUBKEY
                THEN <<"Institutional pubkey appears to be placeholder">>
                ELSE << >>)
            \o (IF claim.signature = ZERO_SIGNATURE
                THEN <<"Signature appears to be placeholder">> ELSE << >>)
            \o (IF limbs_lt(LARGE_BALANCE, claim.balance)
                THEN <<"Balance exceeds $1 billion - please verify">>
                ELSE << >>)
    IN [ kind     |-> "result",
         is_valid |-> (errors = << >>),
         errors   |-> errors,
         warnings |-> warnings ]

\* ---- input domains ----
Institutions == {"bank1", "bank2"}

\* the keys a claim names: a placeholder and a real one
Pubkeys == {ZERO_PUBKEY, verifying_key("bank1")}

\* 0, amounts around the thresholds, and amounts around 100_000_000_000
Balances == {u64(0), u64(500000), u64(1000000), LARGE_BALANCE,
             wrapping_add(LARGE_BALANCE, u64(1))}

Thresholds == {u64(500000), u64(1000000)}

\* a placeholder, and each institution's signature over the balance
Signatures(balance) ==
    {ZERO_SIGNATURE} \cup {sign(i, to_le_bytes(balance)) : i \in Institutions}

\* ---- state machine ----
\* A new claim is built.  The one it replaces is kept as `earlier` when
\* it has been through the guest, from_claim and message_to_sign.
NewClaim ==
    /\ \E pubkey \in Pubkeys, balance \in Balances, threshold \in Thresholds :
         \E signature \in Signatures(balance) :
            rwa_claim' = RwaClaim_new(pubkey, balance, threshold, signature)
    /\ earlier' = IF guest # None /\ public_values # None /\ to_sign # None
                  THEN [ kind          |-> "snapshot",
                         claim         |-> rwa_claim,
                         guest         |-> guest,
                         public_values |-> public_values,
                         to_sign       |-> to_sign ]
                  ELSE earlier
    /\ guest' = None
    /\ public_values' = None
    /\ validation' = None
    /\ to_sign' = None
    /\ UNCHANGED nonRwaVars

\* the guest program run on the claim
GuestMain ==
    /\ rwa_claim # None
    /\ guest = None
    /\ guest' = guest_main(rwa_claim)
    /\ UNCHANGED <<rwa_claim, public_values, validation, to_sign, earlier>>
    /\ UNCHANGED nonRwaVars

FromClaim ==
    /\ rwa_claim # None
    /\ public_values = None
    /\ public_values' = from_claim(rwa_claim)
    /\ UNCHANGED <<rwa_claim, guest, validation, to_sign, earlier>>
    /\ UNCHANGED nonRwaVars

Validate ==
    /\ rwa_claim # None
    /\ validation = None
    /\ validation' = validate(rwa_claim)
    /\ UNCHANGED <<rwa_claim, guest, public_values, to_sign, earlier>>
    /\ UNCHANGED nonRwaVars

MessageToSign ==
    /\ rwa_claim # None
    /\ to_sign = None
    /\ to_sign' = [kind |-> "message", bytes |-> message_to_sign(rwa_claim)]
    /\ UNCHANGED <<rwa_claim, guest, public_values, validation, earlier>>
    /\ UNCHANGED nonRwaVars

(***************************************************************************)
(* Merkle credentials                                                      *)
(***************************************************************************)
\* no credentials generated yet
MerkleInit ==
    /\ creds = None
    /\ presented = None
    /\ merkle_ok = "none"

\* rs_merkle's Sha256 hasher on a pair of nodes: the digest of left || right
hash_pair(left, right) == sha256(<<"concat", left, right>>)

\* one layer up: neighbours hashed in pairs, a last node without a
\* neighbour carried up as it is
parent_layer(layer) ==
    [i \in 1..((Len(layer) + 1) \div 2) |->
        IF 2 * i <= Len(layer) THEN hash_pair(layer[2 * i - 1], layer[2 * i])
        ELSE layer[2 * i - 1]]

\* MerkleTree::from_leaves(..).root() (generate_inputs.rs:107-108)
RECURSIVE tree_root(_)
tree_root(layer) ==
    IF Len(layer) = 1 THEN layer[1] ELSE tree_root(parent_layer(layer))

\* merkle_tree.proof(&[index]).proof_hashes() (generate_inputs.rs:116-124):
\* the sibling at every layer that has one, from the leaves up; `index`
\* counts from 0
RECURSIVE proof_hashes(_, _)
proof_hashes(layer, index) ==
    IF Len(layer) = 1 THEN << >>
    ELSE LET sibling == IF index % 2 = 0 THEN index + 1 ELSE index - 1
             above == proof_hashes(parent_layer(layer), index \div 2)
         IN IF sibling < Len(layer) THEN <<layer[sibling + 1]>> \o above
            ELSE above

\* the leaf of a balance (generate_inputs.rs:98-105)
leaf_of(balance) == sha256(<<"bytes", to_le_bytes(balance)>>)

\* the ledger of generate_inputs.rs:85-96, the user's balance at index 3
leaf_values(user_balance) ==
    << u64(5000000), u64(10000000), u64(7500000), user_balance,
       u64(2000000), u64(15000000), u64(3000000), u64(8000000),
       u64(1000000), u64(12000000) >>

\* the ledger of scripts/generate_test_data.rs:49-60
users ==
    << u64(5000000), u64(10000000), u64(7500000), u64(2000000),
       u64(15000000), u64(3000000), u64(8000000), u64(1000000),
       u64(12000000), u64(6000000) >>

\* what a generator emits for the account at `index` of `values`
credentials(institution, values, index, threshold) ==
    LET leaves == [i \in 1..Len(values) |-> leaf_of(values[i])]
        balance == values[index + 1]
    IN [ kind                 |-> "creds",
         institutional_pubkey |-> verifying_key(institution),
         balance              |-> balance,
         threshold            |-> threshold,
         signature            |-> sign(institution, to_le_bytes(balance)),
         merkle_root          |-> tree_root(leaves),
         merkle_proof         |-> proof_hashes(leaves, index),
         leaf_index           |-> index ]

\* cli/src/bin/generate_inputs.rs:50-139
generate_inputs(institution, balance, threshold) ==
    credentials(institution, leaf_values(balance), 3, threshold)

\* scripts/generate_test_data.rs:35-124
generate_test_data(institution) ==
    credentials(institution, users, 4, u64(10000000))

\* The recombination of the leaf with the proof: at each level the
\* current node goes left of its sibling when the index is even and right
\* of it when odd, and the index is halved.
RECURSIVE recombine(_, _, _)
recombine(node, hashes, index) ==
    IF hashes = << >> THEN node
    ELSE recombine(IF index % 2 = 0 THEN hash_pair(node, Head(hashes))
                   ELSE hash_pair(Head(hashes), node),
                   Tail(hashes), index \div 2)

\* verify_merkle_proof(root, proof_hashes, leaf, leaf_index)
verify_merkle_proof(root, hashes, leaf, leaf_index) ==
    recombine(leaf, hashes, leaf_index) = root

\* ---- input domains ----
\* --balance: the default, and the balances of the accounts at index 2
\* and index 0 of the ledger (generate_inputs.rs:41-43)
ArgBalances == {u64(150000000), u64(7500000), u64(5000000)}

\* --threshold default (generate_inputs.rs:45-47)
ArgThreshold == u64(100000000)

\* the positions of the ten-leaf tree
LeafIndices == 0..9

\* what one hash of a proof can be replaced by
ReplacementHashes(hash, leaf) ==
    {ZERO_HASH, sha256(<<"bit flipped", hash>>), leaf}

\* ---- state machine ----
Emit(c) ==
    /\ creds' = c
    /\ presented' = [ kind         |-> "presented",
                      leaf_index   |-> c.leaf_index,
                      merkle_proof |-> c.merkle_proof,
                      altered      |-> "nothing" ]
    /\ merkle_ok' = "none"
    /\ UNCHANGED nonMerkleVars

GenerateInputs ==
    \E institution \in Institutions, balance \in ArgBalances :
        Emit(generate_inputs(institution, balance, ArgThreshold))

GenerateTestData ==
    \E institution \in Institutions : Emit(generate_test_data(institution))

\* the leaf index of the emitted claim replaced by another position
AlterLeafIndex ==
    /\ presented # None
    /\ presented.altered = "nothing"
    /\ merkle_ok = "none"
    /\ \E i \in LeafIndices \ {presented.leaf_index} :
         presented' = [presented EXCEPT !.leaf_index = i,
                                        !.altered = "leaf_index"]
    /\ UNCHANGED <<creds, merkle_ok>>
    /\ UNCHANGED nonMerkleVars

\* one hash of the emitted proof replaced by other 32 bytes
AlterProofHash ==
    /\ presented # None
    /\ presented.altered = "nothing"
    /\ merkle_ok = "none"
    /\ \E k \in 1..Len(presented.merkle_proof) :
         \E h \in ReplacementHashes(presented.merkle_proof[k],
                                    leaf_of(creds.balance)) :
            /\ h # presented.merkle_proof[k]
            /\ presented' = [presented EXCEPT !.merkle_proof[k] = h,
                                              !.altered = "proof_hash"]
    /\ UNCHANGED <<creds, merkle_ok>>
    /\ UNCHANGED nonMerkleVars

\* the claim's leaf recombined with what is presented
VerifyMerkleProof ==
    /\ presented # None
    /\ merkle_ok = "none"
    /\ merkle_ok' = IF verify_merkle_proof(creds.merkle_root,
                                           presented.merkle_proof,
                                           leaf_of(creds.balance),
                                           presented.leaf_index)
                    THEN "true" ELSE "false"
    /\ UNCHANGED <<creds, presented>>
    /\ UNCHANGED nonMerkleVars

(***************************************************************************)
(* ZkInputBuilder (data_source/builder.rs).  A blob is a sequence of       *)
(* bytes 0..255.                                                           *)
(***************************************************************************)
\* Most blobs one builder is handed between two clear() calls.
MaxBlobs == 3

\* secrecy::Secret::new and expose_secret (builder.rs:98, 119, 147)
Secret_new(bytes) == <<"Secret", bytes>>

expose_secret(s) == s[2]

\* bincode 1.x with its default options (builder.rs:156): a length is a
\* fixed-width little-endian u64, a Vec is its length then its items, a
\* struct is its fields in declaration order
ser_len(n) == to_le_bytes(u64(n))

ser_bytes(bytes) == ser_len(Len(bytes)) \o bytes

RECURSIVE ser_items(_)
ser_items(v) ==
    IF v = << >> THEN << >> ELSE ser_bytes(Head(v)) \o ser_items(Tail(v))

ser_vec(v) == ser_len(Len(v)) \o ser_items(v)

\* a serializer that writes the secret field before the public one
bincode_serialize_secrets_first(combined) ==
    ser_vec(combined.secrets) \o ser_vec(combined.public_data)

\* bincode::serialize(&combined) for struct CombinedInput (builder.rs:47-54)
bincode_serialize(combined) ==
    ser_vec(combined.public_data) \o ser_vec(combined.secrets)

\* bincode::deserialize::<CombinedInput> (builder.rs:219): the reader
\* fails when the bytes end before a length or an item is complete;
\* bytes left over after the last field are ignored
DecodeError == [ok |-> FALSE]

\* the u64 at `pos`, or -1 when it is cut short or exceeds what any
\* input explored here could hold
read_len(bytes, pos) ==
    IF pos + 7 > Len(bytes) THEN -1
    ELSE IF \/ \E i \in 4..7 : bytes[pos + i] # 0
            \/ bytes[pos + 3] >= 128
         THEN -1
         ELSE bytes[pos] + 256 * bytes[pos + 1] + 65536 * bytes[pos + 2]
              + 16777216 * bytes[pos + 3]

read_bytes(bytes, pos) ==
    LET n == read_len(bytes, pos)
    IN IF n < 0 \/ pos + 7 + n > Len(bytes) THEN DecodeError
       ELSE [ok |-> TRUE, value |-> SubSeq(bytes, pos + 8, pos + 7 + n),
             next |-> pos + 8 + n]

RECURSIVE read_items(_, _, _)
read_items(bytes, pos, count) ==
    IF count = 0 THEN [ok |-> TRUE, value |-> << >>, next |-> pos]
    ELSE LET h == read_bytes(bytes, pos)
         IN IF ~h.ok THEN DecodeError
            ELSE LET t == read_items(bytes, h.next, count - 1)
                 IN IF ~t.ok THEN DecodeError
                    ELSE [ok |-> TRUE, value |-> <<h.value>> \o t.value,
                          next |-> t.next]

read_vec(bytes, pos) ==
    LET n == read_len(bytes, pos)
    IN IF n < 0 THEN DecodeError ELSE read_items(bytes, pos + 8, n)

bincode_deserialize(bytes) ==
    LET p == read_vec(bytes, 1)
    IN IF ~p.ok THEN DecodeError
       ELSE LET s == read_vec(bytes, p.next)
            IN IF ~s.ok THEN DecodeError
               ELSE [ok |-> TRUE, public_data |-> p.value,
                     secrets |-> s.value]

\* ZkInputBuilder::new (builder.rs:58-63)
ZkInputBuilder_new == [public_data |-> << >>, secrets |-> << >>]

\* ZkInputBuilder::add_public_data (builder.rs:78-81)
add_public_data(self, data) ==
    [self EXCEPT !.public_data = Append(@, data)]

\* ZkInputBuilder::add_secret (builder.rs:97-100)
add_secret(self, secret) ==
    [self EXCEPT !.secrets = Append(@, Secret_new(secret))]

\* ZkInputBuilder::add_public_data_batch (builder.rs:107-110)
add_public_data_batch(self, data_vec) ==
    [self EXCEPT !.public_data = @ \o data_vec]

\* ZkInputBuilder::add_secrets_batch (builder.rs:117-122)
RECURSIVE add_secrets_batch(_, _)
add_secrets_batch(self, secrets_vec) ==
    IF secrets_vec = << >> THEN self
    ELSE add_secrets_batch(
             [self EXCEPT !.secrets = Append(@, Secret_new(Head(secrets_vec)))],
             Tail(secrets_vec))

\* ZkInputBuilder::build (builder.rs:143-158)
build(self) ==
    LET secret_bytes == [i \in 1..Len(self.secrets) |->
                            expose_secret(self.secrets[i])]
        combined == [public_data |-> self.public_data,
                     secrets |-> secret_bytes]
    IN bincode_serialize(combined)

\* ZkInputBuilder::public_data_count (builder.rs:161-163)
public_data_count(self) == Len(self.public_data)

\* ZkInputBuilder::secrets_count (builder.rs:166-168)
secrets_count(self) == Len(self.secrets)

\* a clear that empties the public data only
clear_public_only(self) == [self EXCEPT !.public_data = << >>]

\* ZkInputBuilder::clear (builder.rs:173-177)
clear(self) == [self EXCEPT !.public_data = << >>, !.secrets = << >>]

(***************************************************************************)
(* ZkInputBuilder: state machine                                           *)
(***************************************************************************)
\* the blobs callers hand over (builder.rs:212-213), and the empty one
BuilderBlobs == {<<1, 2, 3>>, <<4, 5, 6>>, << >>}

\* the vectors handed to the batch methods
Batches ==
    {<< >>} \cup {<<b>> : b \in BuilderBlobs}
            \cup {<<a, b>> : a \in BuilderBlobs, b \in BuilderBlobs}

NoBuild == [kind |-> "none"]

\* the builder as it stands
builder == [public_data |-> public_data, secrets |-> secrets]

\* number of blobs the builder holds
Held == Len(public_data) + Len(secrets)

\* one call recorded: what was called with what, and whether clear() has
\* been called on this builder before or by it
Called_op(op, arg, cleared) == [op |-> op, arg |-> arg, cleared |-> cleared]

\* the record of blobs `blobs` handed over as `kind`
Handed(kind, blobs) == [i \in 1..Len(blobs) |-> [kind |-> kind, blob |-> blobs[i]]]

BuilderInit ==
    /\ public_data = ZkInputBuilder_new.public_data
    /\ secrets = ZkInputBuilder_new.secrets
    /\ last_op = Called_op("new", << >>, FALSE)
    /\ built = NoBuild
    /\ prev_built = NoBuild
    /\ accumulated = << >>

\* the builder becomes `b` through a call that adds `blobs` as `kind`
BuilderAdds(b, op, kind, blobs) ==
    /\ public_data' = b.public_data
    /\ secrets' = b.secrets
    /\ last_op' = Called_op(op, blobs, last_op.cleared)
    /\ built' = NoBuild
    /\ prev_built' = NoBuild
    /\ accumulated' = accumulated \o Handed(kind, blobs)
    /\ UNCHANGED nonBuilderVars

AddPublicData ==
    \E data \in BuilderBlobs :
        /\ Held + 1 <= MaxBlobs
        /\ BuilderAdds(add_public_data(builder, data), "add_public_data",
                       "public", <<data>>)

AddSecret ==
    \E secret \in BuilderBlobs :
        /\ Held + 1 <= MaxBlobs
        /\ BuilderAdds(add_secret(builder, secret), "add_secret",
                       "secret", <<secret>>)

AddPublicDataBatch ==
    \E data_vec \in Batches :
        /\ Held + Len(data_vec) <= MaxBlobs
        /\ BuilderAdds(add_public_data_batch(builder, data_vec),
                       "add_public_data_batch", "public", data_vec)

AddSecretsBatch ==
    \E secrets_vec \in Batches :
        /\ Held + Len(secrets_vec) <= MaxBlobs
        /\ BuilderAdds(add_secrets_batch(builder, secrets_vec),
                       "add_secrets_batch", "secret", secrets_vec)

\* the caller builds, at most twice in a row, and keeps the bytes
Build ==
    /\ prev_built = NoBuild
    /\ prev_built' = built
    /\ built' = [kind |-> "bytes", bytes |-> build(builder)]
    /\ last_op' = Called_op("build", << >>, last_op.cleared)
    /\ UNCHANGED <<public_data, secrets, accumulated>>
    /\ UNCHANGED nonBuilderVars

Clear ==
    /\ last_op.op # "clear"
    /\ public_data' = clear(builder).public_data
    /\ secrets' = clear(builder).secrets
    /\ last_op' = Called_op("clear", << >>, TRUE)
    /\ built' = NoBuild
    /\ prev_built' = NoBuild
    /\ accumulated' = << >>
    /\ UNCHANGED nonBuilderVars

(***************************************************************************)
(* The guest program step by step, and the host call that runs it          *)
(* (guest main.rs:63-147; adapters/sp1/src/lib.rs:139-216).  The input is  *)
(* a sequence of items: a byte, or a fixed-size array kept whole.          *)
(***************************************************************************)
Byte(n) == <<"u8", 1, n>>

Array(width, value) == <<"array", width, value>>

\* u64 as borsh writes it: 8 bytes little-endian
borsh_u64(x) == [i \in 1..8 |-> Byte(to_le_bytes(x)[i])]

\* borsh::to_vec(claim) (lib.rs:145; derive(BorshSerialize), rwa.rs:62-95):
\* the fields in declaration order, nothing between them
borsh_to_vec(claim) ==
    <<Array(32, claim.institutional_pubkey)>>
    \o borsh_u64(claim.balance)
    \o borsh_u64(claim.threshold)
    \o <<Array(64, claim.signature)>>

\* u64::from_le_bytes of the 8 byte items starting at `pos`
borsh_read_u64(items, pos) ==
    [k \in 1..4 |-> items[pos + 2 * (4 - k)][3]
                    + 256 * items[pos + 2 * (4 - k) + 1][3]]

\* RwaClaim::try_from_slice (guest main.rs:76): fails unless the input is
\* exactly a 32-byte array, two u64 and a 64-byte array
try_from_slice(items) ==
    IF /\ Len(items) = 18
       /\ items[1][1] = "array" /\ items[1][2] = 32
       /\ \A i \in 2..17 : items[i][1] = "u8"
       /\ items[18][1] = "array" /\ items[18][2] = 64
    THEN [ ok |-> TRUE,
           claim |-> RwaClaim_new(items[1][3], borsh_read_u64(items, 2),
                                  borsh_read_u64(items, 10), items[18][3]) ]
    ELSE [ ok |-> FALSE, claim |-> None ]

\* the claims a host proves (as in NewClaim)
HostClaims ==
    UNION { { RwaClaim_new(pubkey, balance, threshold, signature) :
                signature \in Signatures(balance) } :
            pubkey \in Pubkeys, balance \in Balances,
            threshold \in Thresholds }

\* inputs that are no serialised RwaClaim: nothing, a claim cut short, a
\* claim with a byte after it, a claim whose signature has 32 bytes
MalformedInputs ==
    LET good == borsh_to_vec(RwaClaim_new(verifying_key("bank1"),
                                 u64(1000000), u64(500000),
                                 sign("bank1", to_le_bytes(u64(1000000)))))
    IN { << >>,
         SubSeq(good, 1, 17),
         good \o <<Byte(0)>>,
         SubSeq(good, 1, 17) \o <<Array(32, good[18][3])>> }

ZkvmInit ==
    /\ zk_stdin = << >>
    /\ zk_pc = "idle"
    /\ zk_claim = None
    /\ zk_journal = << >>
    /\ zk_trace = << >>
    /\ receipt = None

\* the guest starts on `input` with an empty journal
GuestStart(input) ==
    /\ zk_pc \in {"idle", "returned"}
    /\ zk_stdin' = input
    /\ zk_pc' = "read"
    /\ zk_claim' = None
    /\ zk_journal' = << >>
    /\ zk_trace' = << >>
    /\ receipt' = None
    /\ UNCHANGED nonZkvmVars

\* Sp1Backend::prove_rwa up to the prover run (lib.rs:139-150)
ProveRwa == \E claim \in HostClaims : GuestStart(borsh_to_vec(claim))

\* the guest executed on bytes that did not come from borsh::to_vec
ExecuteOnBytes == \E input \in MalformedInputs : GuestStart(input)

\* the guest goes on to `pc` having completed `step`, or panics
GuestStep(passed, pc, step) ==
    /\ zk_pc' = IF passed THEN pc ELSE "panicked"
    /\ zk_trace' = Append(zk_trace, IF passed THEN step ELSE "panic")
    /\ UNCHANGED <<zk_stdin, receipt>>
    /\ UNCHANGED nonZkvmVars

\* guest main.rs:76-77
GuestRead ==
    /\ zk_pc = "read"
    /\ LET d == try_from_slice(zk_stdin)
       IN /\ zk_claim' = d.claim
          /\ GuestStep(d.ok, "verify_ed25519", "deserialized")
    /\ UNCHANGED zk_journal

\* guest main.rs:97-110
GuestVerifySignature ==
    /\ zk_pc = "verify_ed25519"
    /\ GuestStep(verify_ed25519(zk_claim.signature,
                                zk_claim.institutional_pubkey,
                                to_le_bytes(zk_claim.balance)),
                 "check_threshold", "signature verified")
    /\ UNCHANGED <<zk_claim, zk_journal>>

\* a guest that goes on whatever the balance
GuestCheckThreshold_unchecked ==
    /\ zk_pc = "check_threshold"
    /\ GuestStep(TRUE, "commit_pubkey", "threshold met")
    /\ UNCHANGED <<zk_claim, zk_journal>>

\* guest main.rs:121-126
GuestCheckThreshold ==
    /\ zk_pc = "check_threshold"
    /\ GuestStep(~limbs_lt(zk_claim.balance, zk_claim.threshold),
                 "commit_pubkey", "threshold met")
    /\ UNCHANGED <<zk_claim, zk_journal>>

\* guest main.rs:146
GuestCommitPubkey ==
    /\ zk_pc = "commit_pubkey"
    /\ zk_journal' = Append(zk_journal, commit(zk_claim.institutional_pubkey))
    /\ GuestStep(TRUE, "commit_threshold", "committed pubkey")
    /\ UNCHANGED zk_claim

\* guest main.rs:147
GuestCommitThreshold ==
    /\ zk_pc = "commit_threshold"
    /\ zk_journal' = Append(zk_journal,
                            commit(<<"u64", to_le_bytes(zk_claim.threshold)>>))
    /\ GuestStep(TRUE, "exited", "committed threshold")
    /\ UNCHANGED zk_claim

\* Sp1Backend::prove_rwa after the prover run (lib.rs:152-215): a guest
\* that panicked gives ProvingFailed, one that exited gives a receipt
\* carrying the journal as public values
ProveRwaReturns ==
    /\ zk_pc \in {"exited", "panicked"}
    /\ receipt' = IF zk_pc = "exited"
                  THEN [kind |-> "Ok", public_values |-> zk_journal]
                  ELSE [kind |-> "ProvingFailed", public_values |-> << >>]
    /\ zk_pc' = "returned"
    /\ UNCHANGED <<zk_stdin, zk_claim, zk_journal, zk_trace>>
    /\ UNCHANGED nonZkvmVars

(***************************************************************************)
(* RwaVerifier, the Soroban contract (verifiers/stellar/src/lib.rs).       *)
(* A call that panics is rolled back: it leaves storage and events as      *)
(* they were.                                                              *)
(***************************************************************************)
\* Most successful verifications counted.
MaxVerifications == 2

\* the keys of persistent storage (lib.rs:73-88)
StorageKeys == {"init", "admin", "vkey", "count"}

Absent == <<"absent">>

\* env.storage().persistent().has / get / set
has(st, key) == st[key] # Absent

get(st, key) == st[key][2]

set(st, key, val) == [st EXCEPT ![key] = <<"val", val>>]

\* outcomes of a contract call
Returned(val) == [kind |-> "returned", value |-> val]

Trapped(why) == [kind |-> "panic", value |-> why]

\* an initialize that stores whatever it is handed
initialize_overwriting(st, admin, vkey) ==
    [ storage |-> set(set(set(set(st, "admin", admin), "vkey", vkey),
                          "init", "true"), "count", 0),
      outcome |-> Returned("()") ]

\* RwaVerifier::initialize (lib.rs:71-89)
initialize(st, admin, vkey) ==
    IF has(st, "init")
    THEN [ storage |-> st, outcome |-> Trapped("Already initialized") ]
    ELSE [ storage |-> set(set(set(set(st, "admin", admin), "vkey", vkey),
                               "init", "true"), "count", 0),
           outcome |-> Returned("()") ]

\* u64::from_le_bytes (lib.rs:140-144) of the 8 bytes after `offset`,
\* as limbs
u64_from_le_bytes(bytes, offset) ==
    [k \in 1..4 |-> bytes[offset + 2 * (4 - k) + 1]
                    + 256 * bytes[offset + 2 * (4 - k) + 2]]

\* RwaVerifier::verify_proof (lib.rs:111-187).  The proof points are
\* BytesN of the declared sizes, so the placeholder check on their
\* lengths (lib.rs:170) holds for every call.
verify_proof(st, proof_a, proof_b, proof_c, public_vals) ==
    IF ~has(st, "init")
    THEN [ storage |-> st, published |-> << >>,
           outcome |-> Trapped("Not initialized") ]
    ELSE IF Len(public_vals) < 40
    THEN [ storage |-> st, published |-> << >>,
           outcome |-> Trapped("Invalid public values") ]
    ELSE LET institutional_pubkey == SubSeq(public_vals, 1, 32)
             threshold == u64_from_le_bytes(public_vals, 32)
             is_valid == proof_a[2] = 64 /\ proof_b[2] = 128 /\ proof_c[2] = 64
             count == get(st, "count") + 1
         IN IF is_valid
            THEN [ storage |-> set(st, "count", count),
                   published |-> << [ topics |-> <<"verified", institutional_pubkey>>,
                                      data |-> <<threshold, count>> ] >>,
                   outcome |-> Returned("true") ]
            ELSE [ storage |-> st, published |-> << >>,
                   outcome |-> Returned("false") ]

\* RwaVerifier::get_verification_count (lib.rs:190-195)
get_verification_count(st) ==
    Returned(IF has(st, "count") THEN get(st, "count") ELSE 0)

\* RwaVerifier::get_admin (lib.rs:198-203)
get_admin(st) ==
    IF has(st, "admin") THEN Returned(get(st, "admin"))
    ELSE Trapped("called Option::unwrap() on a None value")

\* ---- input domains ----
\* BytesN<n> filled with one byte (lib.rs:219-228, 249-251)
BytesN(n, fill) == <<"BytesN", n, fill>>

Admins == {BytesN(32, 1), BytesN(32, 11)}

\* struct VerificationKey (lib.rs:23-39)
VerificationKey(alpha, beta, gamma, delta, ic) == [alpha |-> alpha, beta |-> beta, gamma |-> gamma, delta |-> delta, ic |-> ic]

Vkeys ==
    { VerificationKey(BytesN(64, a), BytesN(128, 3), BytesN(128, 4),
                      BytesN(128, 5), <<BytesN(64, 6)>>) : a \in {2, 12} }

\* public values: pubkey then threshold (lib.rs:254-258), one byte
\* short, with bytes after the threshold, and of another institution
PublicValueBytes ==
    LET good == [i \in 1..32 |-> 10] \o to_le_bytes(u64(1000000))
        other == [i \in 1..32 |-> 20] \o to_le_bytes(u64(500000))
    IN {good, SubSeq(good, 1, 39), good \o <<0>>, other}

\* ---- state machine ----
\* a deployed contract that nobody has called (lib.rs:214-216)
StellarInit ==
    /\ storage = [key \in StorageKeys |-> Absent]
    /\ events = << >>
    /\ invocation = None

Invoked(fn, args, outcome) == [kind |-> "call", fn |-> fn, args |-> args, outcome |-> outcome]

Initialize ==
    \E admin \in Admins, vkey \in Vkeys :
        LET r == initialize(storage, admin, vkey)
        IN /\ storage' = r.storage
           /\ invocation' = Invoked("initialize", <<admin, vkey>>, r.outcome)
           /\ UNCHANGED events
           /\ UNCHANGED nonStellarVars

VerifyProof ==
    \E public_vals \in PublicValueBytes :
        LET r == verify_proof(storage, BytesN(64, 7), BytesN(128, 8),
                              BytesN(64, 9), public_vals)
        IN /\ has(storage, "count") => get(storage, "count") < MaxVerifications
           /\ storage' = r.storage
           /\ events' = events \o r.published
           /\ invocation' = Invoked("verify_proof", <<public_vals>>, r.outcome)
           /\ UNCHANGED nonStellarVars

GetVerificationCount ==
    /\ invocation' = Invoked("get_verification_count", << >>,
                             get_verification_count(storage))
    /\ UNCHANGED <<storage, events>>
    /\ UNCHANGED nonStellarVars

GetAdmin ==
    /\ invocation' = Invoked("get_admin", << >>, get_admin(storage))
    /\ UNCHANGED <<storage, events>>
    /\ UNCHANGED nonStellarVars

(***************************************************************************)
(* Text.  A string the program scans is a sequence of one-character        *)
(* strings; the texts explored are ASCII.                                  *)
(***************************************************************************)
DigitChars == <<"0", "1", "2", "3", "4", "5", "6", "7", "8", "9">>

\* [0-9]
DigitSet == {DigitChars[i] : i \in 1..10}

\* A character that a string of this module cannot hold is written by its
\* code point, as in "U+0966"; every other character is written as
\* itself.
\* The decimal digits (general category Nd) outside ASCII, 750 of them
OtherDecimalDigits ==
    { "U+0660", "U+0661", "U+0662", "U+0663", "U+0664", "U+0665", "U+0666", "U+0667", "U+0668", "U+0669",
      "۰", "۱", "۲", "۳", "۴", "۵", "۶", "۷", "۸", "۹",
      "߀", "߁", "߂", "߃", "߄", "߅", "߆", "߇", "߈", "߉",
      "U+0966", "U+0967", "U+0968", "U+0969", "U+096A", "U+096B", "U+096C", "U+096D", "U+096E", "U+096F",
      "০", "১", "২", "৩", "৪", "৫", "৬", "৭", "৮", "৯",
      "U+0A66", "U+0A67", "U+0A68", "U+0A69", "U+0A6A", "U+0A6B", "U+0A6C", "U+0A6D", "U+0A6E", "U+0A6F",
      "૦", "૧", "૨", "૩", "૪", "૫", "૬", "૭", "૮", "૯",
      "U+0B66", "U+0B67", "U+0B68", "U+0B69", "U+0B6A", "U+0B6B", "U+0B6C", "U+0B6D", "U+0B6E", "U+0B6F",
      "௦", "௧", "௨", "௩", "௪", "௫", "௬", "௭", "௮", "௯",
      "U+0C66", "U+0C67", "U+0C68", "U+0C69", "U+0C6A", "U+0C6B", "U+0C6C", "U+0C6D", "U+0C6E", "U+0C6F",
      "೦", "೧", "೨", "೩", "೪", "೫", "೬", "೭", "೮", "೯",
      "U+0D66", "U+0D67", "U+0D68", "U+0D69", "U+0D6A", "U+0D6B", "U+0D6C", "U+0D6D", "U+0D6E", "U+0D6F",
      "෦", "෧", "෨", "෩", "෪", "෫", "෬", "෭", "෮", "෯",
      "U+0E50", "U+0E51", "U+0E52", "U+0E53", "U+0E54", "U+0E55", "U+0E56", "U+0E57", "U+0E58", "U+0E59",
      "໐", "໑", "໒", "໓", "໔", "໕", "໖", "໗", "໘", "໙",
      "U+0F20", "U+0F21", "U+0F22", "U+0F23", "U+0F24", "U+0F25", "U+0F26", "U+0F27", "U+0F28", "U+0F29",
      "U+1040", "U+1041", "U+1042", "U+1043", "U+1044", "U+1045", "U+1046", "U+1047", "U+1048", "U+1049",
      "႐", "႑", "႒", "႓", "႔", "႕", "႖", "႗", "႘", "႙",
      "០", "១", "២", "៣", "៤", "៥", "៦", "៧", "៨", "៩",
      "U+1810", "U+1811", "U+1812", "U+1813", "U+1814", "U+1815", "U+1816", "U+1817", "U+1818", "U+1819",
      "U+1946", "U+1947", "U+1948", "U+1949", "U+194A", "U+194B", "U+194C", "U+194D", "U+194E", "U+194F",
      "᧐", "᧑", "᧒", "᧓", "᧔", "᧕", "᧖", "᧗", "᧘", "᧙",
      "᪀", "᪁", "᪂", "᪃", "᪄", "᪅", "᪆", "᪇", "᪈", "᪉",
      "᪐", "᪑", "᪒", "᪓", "᪔", "᪕", "᪖", "᪗", "᪘", "᪙",
      "U+1B50", "U+1B51", "U+1B52", "U+1B53", "U+1B54", "U+1B55", "U+1B56", "U+1B57", "U+1B58", "U+1B59",
      "᮰", "᮱", "᮲", "᮳", "᮴", "᮵", "᮶", "᮷", "᮸", "᮹",
      "U+1C40", "U+1C41", "U+1C42", "U+1C43", "U+1C44", "U+1C45", "U+1C46", "U+1C47", "U+1C48", "U+1C49",
      "U+1C50", "U+1C51", "U+1C52", "U+1C53", "U+1C54", "U+1C55", "U+1C56", "U+1C57", "U+1C58", "U+1C59",
      "U+A620", "U+A621", "U+A622", "U+A623", "U+A624", "U+A625", "U+A626", "U+A627", "U+A628", "U+A629",
      "꣐", "꣑", "꣒", "꣓", "꣔", "꣕", "꣖", "꣗", "꣘", "꣙",
      "U+A900", "U+A901", "U+A902", "U+A903", "U+A904", "U+A905", "U+A906", "U+A907", "U+A908", "U+A909",
      "꧐", "꧑", "꧒", "꧓", "꧔", "꧕", "꧖", "꧗", "꧘", "꧙",
      "꧰", "꧱", "꧲", "꧳", "꧴", "꧵", "꧶", "꧷", "꧸", "꧹",
      "U+AA50", "U+AA51", "U+AA52", "U+AA53", "U+AA54", "U+AA55", "U+AA56", "U+AA57", "U+AA58", "U+AA59",
      "꯰", "꯱", "꯲", "꯳", "꯴", "꯵", "꯶", "꯷", "꯸", "꯹",
      "U+FF10", "U+FF11", "U+FF12", "U+FF13", "U+FF14", "U+FF15", "U+FF16", "U+FF17", "U+FF18", "U+FF19",
      "U+104A0", "U+104A1", "U+104A2", "U+104A3", "U+104A4", "U+104A5", "U+104A6", "U+104A7", "U+104A8", "U+104A9",
      "U+10D30", "U+10D31", "U+10D32", "U+10D33", "U+10D34", "U+10D35", "U+10D36", "U+10D37", "U+10D38", "U+10D39",
      "U+10D40", "U+10D41", "U+10D42", "U+10D43", "U+10D44", "U+10D45", "U+10D46", "U+10D47", "U+10D48", "U+10D49",
      "U+11066", "U+11067", "U+11068", "U+11069", "U+1106A", "U+1106B", "U+1106C", "U+1106D", "U+1106E", "U+1106F",
      "U+110F0", "U+110F1", "U+110F2", "U+110F3", "U+110F4", "U+110F5", "U+110F6", "U+110F7", "U+110F8", "U+110F9",
      "U+11136", "U+11137", "U+11138", "U+11139", "U+1113A", "U+1113B", "U+1113C", "U+1113D", "U+1113E", "U+1113F",
      "U+111D0", "U+111D1", "U+111D2", "U+111D3", "U+111D4", "U+111D5", "U+111D6", "U+111D7", "U+111D8", "U+111D9",
      "U+112F0", "U+112F1", "U+112F2", "U+112F3", "U+112F4", "U+112F5", "U+112F6", "U+112F7", "U+112F8", "U+112F9",
      "U+11450", "U+11451", "U+11452", "U+11453", "U+11454", "U+11455", "U+11456", "U+11457", "U+11458", "U+11459",
      "U+114D0", "U+114D1", "U+114D2", "U+114D3", "U+114D4", "U+114D5", "U+114D6", "U+114D7", "U+114D8", "U+114D9",
      "U+11650", "U+11651", "U+11652", "U+11653", "U+11654", "U+11655", "U+11656", "U+11657", "U+11658", "U+11659",
      "U+116C0", "U+116C1", "U+116C2", "U+116C3", "U+116C4", "U+116C5", "U+116C6", "U+116C7", "U+116C8", "U+116C9",
      "U+116D0", "U+116D1", "U+116D2", "U+116D3", "U+116D4", "U+116D5", "U+116D6", "U+116D7", "U+116D8", "U+116D9",
      "U+116DA", "U+116DB", "U+116DC", "U+116DD", "U+116DE", "U+116DF", "U+116E0", "U+116E1", "U+116E2", "U+116E3",
      "U+11730", "U+11731", "U+11732", "U+11733", "U+11734", "U+11735", "U+11736", "U+11737", "U+11738", "U+11739",
      "U+118E0", "U+118E1", "U+118E2", "U+118E3", "U+118E4", "U+118E5", "U+118E6", "U+118E7", "U+118E8", "U+118E9",
      "U+11950", "U+11951", "U+11952", "U+11953", "U+11954", "U+11955", "U+11956", "U+11957", "U+11958", "U+11959",
      "U+11BF0", "U+11BF1", "U+11BF2", "U+11BF3", "U+11BF4", "U+11BF5", "U+11BF6", "U+11BF7", "U+11BF8", "U+11BF9",
      "U+11C50", "U+11C51", "U+11C52", "U+11C53", "U+11C54", "U+11C55", "U+11C56", "U+11C57", "U+11C58", "U+11C59",
      "U+11D50", "U+11D51", "U+11D52", "U+11D53", "U+11D54", "U+11D55", "U+11D56", "U+11D57", "U+11D58", "U+11D59",
      "U+11DA0", "U+11DA1", "U+11DA2", "U+11DA3", "U+11DA4", "U+11DA5", "U+11DA6", "U+11DA7", "U+11DA8", "U+11DA9",
      "U+11F50", "U+11F51", "U+11F52", "U+11F53", "U+11F54", "U+11F55", "U+11F56", "U+11F57", "U+11F58", "U+11F59",
      "U+16130", "U+16131", "U+16132", "U+16133", "U+16134", "U+16135", "U+16136", "U+16137", "U+16138", "U+16139",
      "U+16A60", "U+16A61", "U+16A62", "U+16A63", "U+16A64", "U+16A65", "U+16A66", "U+16A67", "U+16A68", "U+16A69",
      "U+16AC0", "U+16AC1", "U+16AC2", "U+16AC3", "U+16AC4", "U+16AC5", "U+16AC6", "U+16AC7", "U+16AC8", "U+16AC9",
      "U+16B50", "U+16B51", "U+16B52", "U+16B53", "U+16B54", "U+16B55", "U+16B56", "U+16B57", "U+16B58", "U+16B59",
      "U+16D70", "U+16D71", "U+16D72", "U+16D73", "U+16D74", "U+16D75", "U+16D76", "U+16D77", "U+16D78", "U+16D79",
      "U+1CCF0", "U+1CCF1", "U+1CCF2", "U+1CCF3", "U+1CCF4", "U+1CCF5", "U+1CCF6", "U+1CCF7", "U+1CCF8", "U+1CCF9",
      "U+1D7CE", "U+1D7CF", "U+1D7D0", "U+1D7D1", "U+1D7D2", "U+1D7D3", "U+1D7D4", "U+1D7D5", "U+1D7D6", "U+1D7D7",
      "U+1D7D8", "U+1D7D9", "U+1D7DA", "U+1D7DB", "U+1D7DC", "U+1D7DD", "U+1D7DE", "U+1D7DF", "U+1D7E0", "U+1D7E1",
      "U+1D7E2", "U+1D7E3", "U+1D7E4", "U+1D7E5", "U+1D7E6", "U+1D7E7", "U+1D7E8", "U+1D7E9", "U+1D7EA", "U+1D7EB",
      "U+1D7EC", "U+1D7ED", "U+1D7EE", "U+1D7EF", "U+1D7F0", "U+1D7F1", "U+1D7F2", "U+1D7F3", "U+1D7F4", "U+1D7F5",
      "U+1D7F6", "U+1D7F7", "U+1D7F8", "U+1D7F9", "U+1D7FA", "U+1D7FB", "U+1D7FC", "U+1D7FD", "U+1D7FE", "U+1D7FF",
      "U+1E140", "U+1E141", "U+1E142", "U+1E143", "U+1E144", "U+1E145", "U+1E146", "U+1E147", "U+1E148", "U+1E149",
      "U+1E2F0", "U+1E2F1", "U+1E2F2", "U+1E2F3", "U+1E2F4", "U+1E2F5", "U+1E2F6", "U+1E2F7", "U+1E2F8", "U+1E2F9",
      "U+1E4F0", "U+1E4F1", "U+1E4F2", "U+1E4F3", "U+1E4F4", "U+1E4F5", "U+1E4F6", "U+1E4F7", "U+1E4F8", "U+1E4F9",
      "U+1E5F1", "U+1E5F2", "U+1E5F3", "U+1E5F4", "U+1E5F5", "U+1E5F6", "U+1E5F7", "U+1E5F8", "U+1E5F9", "U+1E5FA",
      "U+1E950", "U+1E951", "U+1E952", "U+1E953", "U+1E954", "U+1E955", "U+1E956", "U+1E957", "U+1E958", "U+1E959",
      "U+1FBF0", "U+1FBF1", "U+1FBF2", "U+1FBF3", "U+1FBF4", "U+1FBF5", "U+1FBF6", "U+1FBF7", "U+1FBF8", "U+1FBF9" }

\* \d as regex::Regex::new builds it: any decimal digit, ASCII or not
DecimalDigits == DigitSet \cup OtherDecimalDigits

\* \s as regex::Regex::new builds it, the 25 characters of White_Space:
\* tab, line feed, vertical tab, form feed, carriage return, space,
\* U+0085, U+00A0, U+1680, U+2000 to U+200A, U+2028, U+2029, U+202F,
\* U+205F, U+3000
SpaceSet ==
    { "\t", "\n", "", "\f", "\r", " ", "", " ", " ",
      "U+2000", "U+2001", "U+2002", "U+2003", "U+2004", "U+2005", "U+2006", "U+2007",
      "U+2008", "U+2009", "U+200A", "U+2028", "U+2029", "U+202F", "U+205F", "U+3000" }

LowerAlpha == <<"a", "b", "c", "d", "e", "f", "g", "h", "i", "j", "k", "l", "m",
      "n", "o", "p", "q", "r", "s", "t", "u", "v", "w", "x", "y", "z">>

UpperAlpha == <<"A", "B", "C", "D", "E", "F", "G", "H", "I", "J", "K", "L", "M",
      "N", "O", "P", "Q", "R", "S", "T", "U", "V", "W", "X", "Y", "Z">>

\* one pattern item: between `min` and `max` characters of the class
\* `cls`, as many as there are (max = -1: no upper limit)
Atom(cls, min, max) == [cls |-> cls, min |-> min, max |-> max]

\* a literal character, and a literal word under the (?i) flag
Lit(c) == Atom({c}, 1, 1)

either_case(c) == {c} \cup {UpperAlpha[i] : i \in {j \in 1..26 : LowerAlpha[j] = c}}

word_nocase(w) == [k \in 1..Len(w) |-> Atom(either_case(w[k]), 1, 1)]

\* Below, CHOOSE r \in {e(x) : x \in {v}} : TRUE is e(v) with v computed
\* once.
\* number of characters of `cls` from position i on, at most `max`
RECURSIVE count_run(_, _, _, _)
count_run(t, i, cls, max) ==
    IF max = 0 \/ i > Len(t) THEN 0
    ELSE IF t[i] \notin cls THEN 0
    ELSE 1 + count_run(t, i + 1, cls, max - 1)

\* the pattern `atoms` matched at position i: where each item starts and
\* where the match ends, or << >> when it does not match there.  In the
\* patterns below no item has to give back characters for a later one.
RECURSIVE match_atoms(_, _, _)
match_atoms(t, i, atoms) ==
    IF atoms = << >> THEN <<i>>
    ELSE CHOOSE r \in
             { IF n < Head(atoms).min THEN << >>
               ELSE CHOOSE q \in { IF rest = << >> THEN << >> ELSE <<i>> \o rest :
                                     rest \in {match_atoms(t, i + n, Tail(atoms))} } : TRUE :
               n \in {count_run(t, i, Head(atoms).cls, Head(atoms).max)} } : TRUE

\* the first of the alternatives `alts` that matches at position i
RECURSIVE match_at(_, _, _)
match_at(t, i, alts) ==
    IF alts = << >> THEN << >>
    ELSE CHOOSE r \in { IF b # << >> THEN b ELSE match_at(t, i, Tail(alts)) :
                          b \in {match_atoms(t, i, Head(alts))} } : TRUE

\* Regex::find / Regex::captures: the leftmost match at or after i
RECURSIVE regex_find(_, _, _)
regex_find(t, alts, i) ==
    IF i > Len(t) THEN << >>
    ELSE CHOOSE r \in { IF b # << >> THEN b ELSE regex_find(t, alts, i + 1) :
                          b \in {match_at(t, i, alts)} } : TRUE

\* Regex::replace_all from position i on
RECURSIVE replace_all(_, _, _, _)
replace_all(t, alts, rep, i) ==
    IF i > Len(t) THEN << >>
    ELSE CHOOSE r \in { IF b # << >> THEN rep \o replace_all(t, alts, rep, b[Len(b)])
                          ELSE <<t[i]>> \o replace_all(t, alts, rep, i + 1) :
                          b \in {match_at(t, i, alts)} } : TRUE

\* str::contains
contains(t, w) ==
    \E i \in 1..(Len(t) - Len(w) + 1) : SubSeq(t, i, i + Len(w) - 1) = w

(***************************************************************************)
(* StructuredExtractor (agent/extractor.rs)                                *)
(***************************************************************************)
\* \d{3}-\d{2}-\d{4}  (extractor.rs:113)
SsnPattern ==
    << <<Atom(DecimalDigits, 3, 3), Lit("-"), Atom(DecimalDigits, 2, 2), Lit("-"),
         Atom(DecimalDigits, 4, 4)>> >>

\* (?i)account\s*#?\s*(\d{8,})  (extractor.rs:119)
AccountPattern ==
    << word_nocase(<<"a", "c", "c", "o", "u", "n", "t">>)
       \o <<Atom(SpaceSet, 0, -1), Atom({"#"}, 0, 1), Atom(SpaceSet, 0, -1),
            Atom(DecimalDigits, 8, -1)>> >>

\* \d{4}[\s-]?\d{4}[\s-]?\d{4}[\s-]?\d{4}  (extractor.rs:125)
CardPattern ==
    << <<Atom(DecimalDigits, 4, 4), Atom(SpaceSet \cup {"-"}, 0, 1),
         Atom(DecimalDigits, 4, 4), Atom(SpaceSet \cup {"-"}, 0, 1),
         Atom(DecimalDigits, 4, 4), Atom(SpaceSet \cup {"-"}, 0, 1),
         Atom(DecimalDigits, 4, 4)>> >>

\* StructuredExtractor::sanitize_input (extractor.rs:109-131)
sanitize_input(text) ==
    LET ssn_redacted(t) ==
            replace_all(t, SsnPattern,
                        <<"[", "S", "S", "N", " ", "R", "E", "D", "A", "C", "T", "E", "D", "]">>, 1)
        account_redacted(t) ==
            replace_all(t, AccountPattern,
                        <<"A", "c", "c", "o", "u", "n", "t", " ", "[", "R", "E", "D", "A",
                          "C", "T", "E", "D", "]">>, 1)
        card_redacted(t) ==
            replace_all(t, CardPattern,
                        <<"[", "C", "A", "R", "D", " ", "R", "E", "D", "A", "C", "T", "E",
                          "D", "]">>, 1)
    IN CHOOSE r \in { card_redacted(no_account) :
                        no_account \in { account_redacted(no_ssn) :
                                         no_ssn \in {ssn_redacted(text)} } } : TRUE

\* StructuredExtractor::hash_source (extractor.rs:134-139)
hash_source(text) == sha256(<<"bytes", text>>)

\* (?i)(?:balance|total|amount)[\s:$]*([0-9,]+\.?\d{0,2})
\* (extractor.rs:161); the group is the last three items
BalancePattern ==
    LET tail == <<Atom(SpaceSet \cup {":", "$"}, 0, -1),
                  Atom(DigitSet \cup {","}, 1, -1),
                  Atom({"."}, 0, 1), Atom(DecimalDigits, 0, 2)>>
    IN << word_nocase(<<"b", "a", "l", "a", "n", "c", "e">>) \o tail,
          word_nocase(<<"t", "o", "t", "a", "l">>) \o tail,
          word_nocase(<<"a", "m", "o", "u", "n", "t">>) \o tail >>

\* ---- f64 arithmetic (extractor.rs:170-176) ----
\* A whole number of any size is the sequence of its bits, lowest first,
\* with no zero at the top.  An f64 that is finite and not negative is
\* [m, e], standing for m * 2^e, where m has 53 bits, or none for 0.0.
RECURSIVE nat_bits(_)
nat_bits(n) == IF n = 0 THEN << >> ELSE <<n % 2>> \o nat_bits(n \div 2)

Zeros(n) == [i \in 1..n |-> 0]

\* b without the zeros at its top
nat_norm(b) ==
    LET ones == {i \in 1..Len(b) : b[i] = 1}
    IN IF ones = {} THEN << >>
       ELSE SubSeq(b, 1, CHOOSE i \in ones : \A j \in ones : j <= i)

\* the number that the first n bits of b write
RECURSIVE bits_value(_, _)
bits_value(b, n) ==
    IF n = 0 THEN 0 ELSE bits_value(b, n - 1) + b[n] * 2 ^ (n - 1)

\* The sums below go over the number fifteen bits at a time.
CHUNK == 2 ^ 15

chunks_of(b) ==
    [i \in 1..((Len(b) + 14) \div 15) |->
        bits_value(SubSeq(b \o Zeros(14), 15 * i - 14, 15 * i), 15)]

bits_of(cs) ==
    nat_norm([j \in 1..(15 * Len(cs)) |->
                 (cs[(j - 1) \div 15 + 1] \div 2 ^ ((j - 1) % 15)) % 2])

RECURSIVE chunks_mul_add(_, _, _)
chunks_mul_add(cs, k, c) ==
    IF cs = << >> THEN (IF c = 0 THEN << >> ELSE <<c>>)
    ELSE CHOOSE r \in { <<v % CHUNK>> \o chunks_mul_add(rest, k, carry) :
                          v \in {cs[1] * k + c}, rest \in {Tail(cs)},
                          carry \in {(cs[1] * k + c) \div CHUNK} } : TRUE

RECURSIVE chunks_div(_, _)
chunks_div(cs, d) ==
    IF cs = << >> THEN [q |-> << >>, r |-> 0]
    ELSE CHOOSE res \in
             { [q |-> <<(h.r * CHUNK + cs[1]) \div d>> \o h.q,
                r |-> (h.r * CHUNK + cs[1]) % d] :
               h \in { chunks_div(rest, d) : rest \in {Tail(cs)} } } : TRUE

\* b * k + c, for k and c below 2^15
nat_mul_add(b, k, c) ==
    CHOOSE r \in { bits_of(chunks_mul_add(cs, k, c)) : cs \in {chunks_of(b)} } : TRUE

\* b \div d and b % d, for d below 2^15
nat_div(b, d) ==
    CHOOSE res \in { [q |-> bits_of(h.q), r |-> h.r] :
                     h \in { chunks_div(cs, d) : cs \in {chunks_of(b)} } } : TRUE

\* the number that the first n of the ASCII digits ds write
RECURSIVE dec_bits(_, _)
dec_bits(ds, n) ==
    IF n = 0 THEN << >>
    ELSE CHOOSE r \in
             { nat_mul_add(hi, 10, d) :
               hi \in {dec_bits(ds, n - 1)},
               d \in {CHOOSE v \in 0..9 : DigitChars[v + 1] = ds[n]} } : TRUE

F64_ZERO == [m |-> << >>, e |-> 0]

\* the f64 nearest to (b + f) * 2^e, a half going to the even side, where
\* b has at least 55 bits and `more` tells whether the fraction f, below
\* one, is above zero
f64_round(b, more, e) ==
    LET drop == Len(b) - 53
        m == SubSeq(b, drop + 1, Len(b))
        up == /\ b[drop] = 1
              /\ (more \/ m[1] = 1 \/ \E i \in 1..(drop - 1) : b[i] = 1)
    IN IF ~up THEN [m |-> m, e |-> e + drop]
       ELSE CHOOSE r \in
                { IF Len(m1) = 54 THEN [m |-> Tail(m1), e |-> e + drop + 1]
                                  ELSE [m |-> m1, e |-> e + drop] :
                  m1 \in {nat_mul_add(m, 1, 1)} } : TRUE

\* the f64 nearest to n / d, for small d
f64_ratio(n, d) ==
    IF n = << >> THEN F64_ZERO
    ELSE LET s == IF Len(n) >= 62 THEN 0 ELSE 62 - Len(n)
         IN CHOOSE r \in
                { f64_round(h.q, h.r # 0, 0 - s) :
                  h \in { nat_div(a, d) : a \in {Zeros(s) \o n} } } : TRUE

\* str::parse::<f64> (extractor.rs:170) of the ASCII digits `whole`, a
\* point and the ASCII digits `frac`; either run may be empty, not both
parse_f64(whole, frac) ==
    CHOOSE r \in { f64_ratio(n, 10 ^ Len(frac)) :
                   n \in { dec_bits(ds, Len(ds)) : ds \in {whole \o frac} } } : TRUE

\* f * k in f64, for a whole k from 4 up that an f64 holds exactly
\* (extractor.rs:176 has k = 100.0)
f64_mul(f, k) ==
    CHOOSE r \in { IF x.m = << >> THEN F64_ZERO
                   ELSE CHOOSE r2 \in { f64_round(p, FALSE, x.e) :
                                        p \in {nat_mul_add(x.m, k, 0)} } : TRUE :
                   x \in {f} } : TRUE

\* f as u64 (extractor.rs:176): the fraction is cut off, and a number that
\* does not fit becomes u64::MAX
f64_as_u64(f) ==
    CHOOSE r \in
        { IF Len(b) > 64 THEN U64_MAX
          ELSE CHOOSE r2 \in
                   { [k \in 1..4 |->
                         bits_value(SubSeq(padded, 16 * (4 - k) + 1, 16 * (4 - k) + 16), 16)] :
                     padded \in {b \o Zeros(64 - Len(b))} } : TRUE :
          b \in { IF x.m = << >> THEN << >>
                  ELSE IF x.e >= 0 THEN Zeros(x.e) \o x.m
                  ELSE IF 0 - x.e >= Len(x.m) THEN << >>
                  ELSE SubSeq(x.m, 1 - x.e, Len(x.m)) : x \in {f} } } : TRUE

ExtractionOk(val) == [kind |-> "Ok", value |-> val]

BalanceNotFound == [kind |-> "Err", value |-> "Balance not found in document"]

InvalidBalance == [kind |-> "Err", value |-> "Invalid balance format"]

\* StructuredExtractor::extract_balance (extractor.rs:159-178): the group
\* without its commas is parsed as an f64, which fails when nothing but a
\* point is left or a digit is not an ASCII one; the product with 100.0
\* is cut to a u64
extract_balance(text) ==
    LET parsed(b) ==
            IF b = << >> THEN BalanceNotFound
            ELSE LET n == Len(b)
                     whole == SelectSeq(SubSeq(text, b[n - 3], b[n - 2] - 1),
                                        LAMBDA c : c # ",")
                     frac == SubSeq(text, b[n - 1], b[n] - 1)
                 IN IF \/ whole = << >> /\ frac = << >>
                       \/ \E k \in 1..Len(frac) : frac[k] \notin DigitSet
                    THEN InvalidBalance
                    ELSE ExtractionOk(f64_as_u64(f64_mul(parse_f64(whole, frac), 100)))
    IN CHOOSE r \in {parsed(b) : b \in {regex_find(text, BalancePattern, 1)}} : TRUE

\* the names looked for, in this order (extractor.rs:183)
Banks ==
    << <<"C", "h", "a", "s", "e">>, <<"B", "a", "n", "k", " ", "o", "f", " ", "A", "m", "e", "r", "i",
      "c", "a">>,
       <<"W", "e", "l", "l", "s", " ", "F", "a", "r", "g", "o">>, <<"C", "i", "t", "i">>,
       <<"G", "o", "l", "d", "m", "a", "n", " ", "S", "a", "c", "h", "s">> >>

Nothing == <<"None">>

Some(val) == <<"Some", val>>

\* StructuredExtractor::extract_institution (extractor.rs:181-192)
extract_institution(text) ==
    LET found == {i \in 1..Len(Banks) : contains(text, Banks[i])}
    IN IF found = {} THEN Nothing
       ELSE Some(Banks[CHOOSE i \in found : \A j \in found : i <= j])

\* \d{4}-\d{2}-\d{2}|\d{2}/\d{2}/\d{4}  (extractor.rs:196)
DatePattern ==
    << <<Atom(DecimalDigits, 4, 4), Lit("-"), Atom(DecimalDigits, 2, 2), Lit("-"),
         Atom(DecimalDigits, 2, 2)>>,
       <<Atom(DecimalDigits, 2, 2), Lit("/"), Atom(DecimalDigits, 2, 2), Lit("/"),
         Atom(DecimalDigits, 4, 4)>> >>

\* StructuredExtractor::extract_date (extractor.rs:195-200)
extract_date(text) ==
    CHOOSE r \in { IF b = << >> THEN Nothing
                     ELSE Some(SubSeq(text, b[1], b[Len(b)] - 1)) :
                     b \in {regex_find(text, DatePattern, 1)} } : TRUE

\* StructuredExtractor::extract_with_llm (extractor.rs:142-156)
extract_with_llm(sanitized_text) ==
    CHOOSE r \in
        { IF balance.kind = "Err" THEN balance
          ELSE ExtractionOk([ balance     |-> balance.value,
                              institution |-> extract_institution(sanitized_text),
                              date        |-> extract_date(sanitized_text),
                              metadata    |-> << >> ]) :
          balance \in {extract_balance(sanitized_text)} } : TRUE

\* [1u8; 32] and [2u8; 64] (extractor.rs:208, 211)
PLACEHOLDER_PUBKEY == <<"bytes32", "ones">>

PLACEHOLDER_SIGNATURE == <<"bytes64", "twos">>

\* u64 / 2
half(x) ==
    LET v(k) == IF k = 0 THEN 0 ELSE x[k]
    IN [k \in 1..4 |-> (x[k] \div 2) + (IF k > 1 /\ v(k - 1) % 2 = 1
                                          THEN LIMB \div 2 ELSE 0)]

\* StructuredExtractor::parse_claim (extractor.rs:203-213)
parse_claim(data) ==
    RwaClaim_new(PLACEHOLDER_PUBKEY, data.balance, half(data.balance),
                 PLACEHOLDER_SIGNATURE)

\* StructuredExtractor::calculate_confidence (extractor.rs:216-230), the
\* f32 named by the product that made it
calculate_confidence(data) ==
    IF data.institution = Nothing
    THEN (IF data.date = Nothing THEN "1.0*0.8*0.9" ELSE "1.0*0.8")
    ELSE (IF data.date = Nothing THEN "1.0*0.9" ELSE "1.0")

\* StructuredExtractor::collect_warnings (extractor.rs:233-245)
collect_warnings(data) ==
    (IF data.institution = Nothing
        THEN <<"Institution name not found in document">> ELSE << >>)
    \o (IF data.date = Nothing
        THEN <<"Statement date not found">> ELSE << >>)

\* StructuredExtractor::extract on DataSource::Text (extractor.rs:71-106)
extract(raw_text) ==
    LET claimed(extracted) ==
            IF extracted.kind = "Err" THEN extracted
            ELSE ExtractionOk([ claim       |-> parse_claim(extracted.value),
                                confidence  |-> calculate_confidence(extracted.value),
                                source_hash |-> hash_source(raw_text),
                                warnings    |-> collect_warnings(extracted.value),
                                metadata    |-> extracted.value.metadata ])
    IN CHOOSE r \in { claimed(extracted) :
                        extracted \in { extract_with_llm(sanitized) :
                                        sanitized \in {sanitize_input(raw_text)} } } : TRUE

(***************************************************************************)
(* VeriVaultMcpServer (cli/src/mcp/server.rs)                              *)
(***************************************************************************)
\* Number of requests sent to one server.
MaxRequests == 2

\* ToolResult::success / ToolResult::error (mcp/tools.rs:24-40)
ToolResult_success(data) == [success |-> TRUE, data |-> data, error |-> Nothing]

ToolResult_error(msg) == [success |-> FALSE, data |-> <<"null">>, error |-> Some(msg)]

\* a JSON argument that is absent, or not of the type asked for
JsonNull == <<"null">>

\* serde_json::to_vec(&result.claim) (server.rs:146)
claim_to_vec(claim) ==
    <<"bytes",
      << "json-object",
         <<"institutional_pubkey", <<"array", claim.institutional_pubkey>> >>,
         <<"balance", <<"u64", claim.balance>> >>,
         <<"threshold", <<"u64", claim.threshold>> >>,
         <<"signature", <<"array", claim.signature>> >> >> >>

\* execute_extract_claim up to its call of add_entry (server.rs:122-141):
\* an error result, or the extraction with the caller's threshold in it
extract_claim_begin(args) ==
    IF args.raw_data = JsonNull
    THEN [kind |-> "done", result |-> ToolResult_error("Missing raw_data parameter")]
    ELSE IF args.threshold = JsonNull
    THEN [kind |-> "done", result |-> ToolResult_error("Missing threshold parameter")]
    ELSE CHOOSE step \in
             { IF r.kind = "Err"
               THEN [kind |-> "done",
                     result |-> ToolResult_error(<<"Extraction failed: ", r.value>>)]
               ELSE [kind |-> "log",
                     result |-> [r.value EXCEPT !.claim.threshold = args.threshold]] :
               r \in {extract(args.raw_data)} } : TRUE

\* execute_extract_claim after add_entry (server.rs:151-161)
extract_claim_end(extraction) ==
    ToolResult_success([ claim      |-> extraction.claim,
                         confidence |-> extraction.confidence,
                         warnings   |-> extraction.warnings,
                         metadata   |-> extraction.metadata ])

\* ---- input domains ----
\* the statement of the server's own test (server.rs:271)
TestStatement ==
    <<"C", "h", "a", "s", "e", " ", "B", "a", "n", "k", "\n", "A", "c",
    "c", "o", "u", "n", "t", " ", "B", "a", "l", "a", "n", "c",
    "e", ":", " ", "$", "5", "0", ",", "0", "0", "0", ".", "0", "0">>

\* that statement, one with a date, one with a zero balance, one without
\* a balance, one whose amount has no digit, one whose figure is taken
\* for a card number, one with a form feed before an amount that is no
\* whole number of cents as an f64, and one whose cents are Bengali
\* digits, which \d matches and str::parse::<f64> does not read
Documents ==
    { TestStatement,
      <<"C", "i", "t", "i", " ", "2", "0", "2", "4", "-", "0", "1", "-",
      "1", "5", " ", "T", "o", "t", "a", "l", " ", "5", "0", ",",
      "0", "0", "0">>,
      <<"B", "a", "l", "a", "n", "c", "e", ":", " ", "0">>,
      <<"S", "t", "a", "t", "e", "m", "e", "n", "t">>,
      <<"A", "m", "o", "u", "n", "t", ":", " ", ",">>,
      <<"B", "a", "l", "a", "n", "c", "e", ":", " ", "1", "2", "3", "4",
      "5", "6", "7", "8", "1", "2", "3", "4", "5", "6", "7", "8">>,
      <<"B", "a", "l", "a", "n", "c", "e", ":", "\f", "0", ".", "2", "9">>,
      <<"B", "a", "l", "a", "n", "c", "e", ":", " ", "5", ".", "১", "২">> }

\* thresholds a caller asks for: the statement's balance, one cent more, 0
ToolThresholds == {u64(5000000), u64(5000001), u64(0)}

\* the arguments of the explored calls: the test statement with each
\* threshold, the other texts with the test's threshold, and calls that
\* lack an argument
ToolArgs ==
    [raw_data : {TestStatement}, threshold : ToolThresholds]
    \cup [raw_data : Documents, threshold : {u64(5000000)}]
    \cup {[raw_data |-> JsonNull, threshold |-> u64(0)],
          [raw_data |-> <<"B", "a", "l", "a", "n", "c", "e", ":", " ", "0">>, threshold |-> JsonNull]}

Users == {"cursor", "claude"}

\* ---- state machine ----
\* VeriVaultMcpServer::new (server.rs:24-29), nothing on stdin
McpInit ==
    /\ mcp_stdin = << >>
    /\ frames = {}
    /\ responses = << >>

\* requests sent so far
Sent == Len(mcp_stdin) + Cardinality(frames) + Len(responses)

\* a caller writes an extract_claim request to the server's stdin
SendRequest ==
    /\ Sent < MaxRequests
    /\ \E user \in Users, args \in ToolArgs :
         mcp_stdin' = Append(mcp_stdin, [id |-> Sent + 1, user |-> user, args |-> args])
    /\ UNCHANGED <<frames, responses>>
    /\ UNCHANGED auditVars
    /\ UNCHANGED nonMcpVars

\* a loop that takes the next line whatever it has in hand
loop_ready_always(fr) == TRUE

\* the loop of run takes the next line when handle_request has returned
\* (server.rs:39-48)
loop_ready(fr) == fr = {}

Respond(req, tool_result) == Append(responses, [id |-> req.id, user |-> req.user, result |-> tool_result])

\* run reads a line and calls the tool (server.rs:39-45, 68-78, 91-107,
\* 122-141): the call ends at once with an error, or goes on to add_entry
TakeLine ==
    /\ mcp_stdin # << >>
    /\ loop_ready(frames)
    /\ \E req \in {Head(mcp_stdin)} : \E r \in {extract_claim_begin(req.args)} :
          IF r.kind = "done"
          THEN /\ responses' = Respond(req, r.result)
               /\ UNCHANGED frames
          ELSE /\ frames' = frames \cup
                     {[ req |-> req, result |-> r.result, pc |-> "last",
                        previous_hash |-> ZERO_HASH, nonce |-> 0 ]}
               /\ UNCHANGED responses
    /\ mcp_stdin' = Tail(mcp_stdin)
    /\ UNCHANGED auditVars
    /\ UNCHANGED nonMcpVars

\* the frame f goes on as g
Advance(f, g) == frames' = (frames \ {f}) \cup {g}

\* add_entry reads the hash of the last entry (audit.rs:122-125)
ReadLastHash ==
    \E f \in frames :
        /\ f.pc = "last"
        /\ Advance(f, [f EXCEPT !.pc = "count",
                          !.previous_hash =
                              IF entries = << >> THEN ZERO_HASH
                              ELSE compute_hash(entries[Len(entries)])])
        /\ UNCHANGED <<mcp_stdin, responses>>
        /\ UNCHANGED auditVars
        /\ UNCHANGED nonMcpVars

\* add_entry reads the number of entries (audit.rs:127)
ReadCount ==
    \E f \in frames :
        /\ f.pc = "count"
        /\ Advance(f, [f EXCEPT !.pc = "push", !.nonce = Len(entries)])
        /\ UNCHANGED <<mcp_stdin, responses>>
        /\ UNCHANGED auditVars
        /\ UNCHANGED nonMcpVars

\* add_entry builds the entry and pushes it (audit.rs:129-138), with the
\* arguments execute_extract_claim passes (server.rs:143-149)
PushEntry ==
    \E f \in frames, now \in Clock :
        /\ f.pc = "push"
        /\ entries' = Append(entries,
               AuditEntry_new("ExtractClaim", <<"bytes", f.req.args.raw_data>>,
                              claim_to_vec(f.result.claim),
                              <<"bytes", "extract_claim_v1">>,
                              f.result.confidence, f.previous_hash, f.nonce,
                              now))
        /\ integrity' = "none"
        /\ observed' = NoQuery
        /\ Advance(f, [f EXCEPT !.pc = "trail_hash"])
        /\ UNCHANGED <<trail_hash, created_at, mutation>>
        /\ UNCHANGED <<mcp_stdin, responses>>
        /\ UNCHANGED nonMcpVars

\* add_entry recomputes the trail hash (audit.rs:139, 143-148);
\* execute_extract_claim returns and run writes the response
\* (server.rs:151-161, 46-48)
UpdateTrailHash ==
    \E f \in frames :
        /\ f.pc = "trail_hash"
        /\ trail_hash' = update_trail_hash(entries)
        /\ frames' = frames \ {f}
        /\ responses' = Respond(f.req, extract_claim_end(f.result))
        /\ UNCHANGED <<entries, created_at, integrity, mutation, observed>>
        /\ UNCHANGED mcp_stdin
        /\ UNCHANGED nonMcpVars

(***************************************************************************)
(* Specifications                                                          *)
(***************************************************************************)
\* Every component starts as constructed; each specification then drives
\* one of them.  This one drives the audit trail through its own
\* operations, beside one proof that is never presented.
Init ==
    /\ AuditInit
    /\ TlsInit
    /\ origin.timestamp = FIXTURE_TS
    /\ overflow_checks = TRUE
    /\ NotaryInit
    /\ RwaInit
    /\ MerkleInit
    /\ McpInit
    /\ StellarInit
    /\ ZkvmInit
    /\ BuilderInit

Next == AddEntry \/ VerifyIntegrity \/ ExportJson \/ LenCall \/ IsEmpty

Spec == Init /\ [][Next]_vars

\* the audit trail with one stored field overwritten behind its back
NextTamper == (mutation = NoMutation /\ AddEntry) \/ Tamper \/ VerifyIntegrity

SpecTamper == Init /\ [][NextTamper]_vars

\* a recorded TLS proof, possibly rewritten, presented to verify()
InitTls == AuditInit /\ TlsInit /\ NotaryInit /\ RwaInit /\ MerkleInit /\ BuilderInit /\ ZkvmInit /\ StellarInit /\ McpInit

NextTls == Rewrite \/ Verify

SpecTls == InitTls /\ [][NextTls]_vars

\* a holder who also flips bits of the signature and, a call having
\* returned, goes on with the proof and presents it again
NextSig == Rewrite \/ FlipBit \/ Verify \/ TakeBack

SpecSig == InitTls /\ [][NextSig]_vars

\* create_message_hash called directly, as the unit tests do
NextHash == CreateMessageHash

SpecHash == Init /\ [][NextHash]_vars

\* the notary issuing proofs, directly and over HTTP, and a verifier
\* recovering their signer
NextNotary == GenerateProof \/ Recover \/ PostGenerateProof

SpecNotary == Init /\ [][NextNotary]_vars

\* claims built one after another, each validated, turned into public
\* values and a message, and run through the guest
NextRwa == NewClaim \/ GuestMain \/ FromClaim \/ Validate \/ MessageToSign

SpecRwa == Init /\ [][NextRwa]_vars

\* credentials generated, presented as emitted or with one alteration,
\* and verified
NextMerkle ==
    \/ GenerateInputs
    \/ GenerateTestData
    \/ AlterLeafIndex
    \/ AlterProofHash
    \/ VerifyMerkleProof

SpecMerkle == Init /\ [][NextMerkle]_vars

\* This one drives one ZkInputBuilder through its methods.
NextBuilder ==
    \/ AddPublicData
    \/ AddSecret
    \/ AddPublicDataBatch
    \/ AddSecretsBatch
    \/ Build
    \/ Clear

SpecBuilder == Init /\ [][NextBuilder]_vars

\* This one runs the guest program, one step at a time, on what a host
\* or anyone else wrote to its input.
NextZkvm ==
    \/ ProveRwa
    \/ ExecuteOnBytes
    \/ GuestRead
    \/ GuestVerifySignature
    \/ GuestCheckThreshold
    \/ GuestCommitPubkey
    \/ GuestCommitThreshold
    \/ ProveRwaReturns

SpecZkvm == Init /\ [][NextZkvm]_vars

\* This one lets anyone call the Stellar verifier contract.
NextStellar == Initialize \/ VerifyProof \/ GetVerificationCount \/ GetAdmin

SpecStellar == Init /\ [][NextStellar]_vars

\* This one lets callers send extract_claim requests to one MCP server,
\* which works through them with the steps of add_entry taken one by one.
NextMcp ==
    \/ SendRequest
    \/ TakeLine
    \/ ReadLastHash
    \/ ReadCount
    \/ PushEntry
    \/ UpdateTrailHash

SpecMcp == Init /\ [][NextMcp]_vars

(***************************************************************************)
(* Properties of ZkAuditTrail                                              *)
(***************************************************************************)
\* C1: after any number N of add_entry calls on a trail made by new()
\* (N = 0 included), verify_integrity() returns true.
C1_IntegrityAfterAdds == integrity # "false"

\* the part of C1 the code does meet: after at least one add_entry
C1_IntegrityAfterFirstAdd == Len(entries) >= 1 => integrity # "false"

\* C2: in every state of a trail, from new() onward, each entry's
\* previous_hash is the hash of the entry before it and trail_hash is the
\* hash of the serialised entry sequence.
C2_ChainAndTrailHash ==
    /\ \A i \in 2..Len(entries) :
          entries[i].previous_hash = compute_hash(entries[i - 1])
    /\ trail_hash = sha256(ser_entries(entries))

\* the part of C2 the code does meet: the chain links always, the trail
\* hash once an entry has been added
C2_ChainAndTrailHashAfterFirstAdd ==
    /\ \A i \in 2..Len(entries) :
          entries[i].previous_hash = compute_hash(entries[i - 1])
    /\ Len(entries) >= 1 => trail_hash = sha256(ser_entries(entries))

\* C3: on a trail of one or more entries, overwriting any single stored
\* field of any one entry, all else left as stored, makes
\* verify_integrity() return false.
C3_SingleFieldTamperDetected ==
    (mutation # NoMutation /\ integrity # "none") => integrity = "false"

\* the part of C3 the code does meet: an overwrite that changes the entry's
\* serialisation is detected
C3_SerialisedTamperDetected ==
    (mutation # NoMutation /\ integrity # "none"
        /\ ~(mutation.field = "confidence"
             /\ mutation.old \in F32NonFinite
             /\ entries[mutation.index].confidence \in F32NonFinite))
    => integrity = "false"

(***************************************************************************)
(* Properties of RecordedTlsProof::verify                                  *)
(***************************************************************************)
Called == result.kind # "none"

\* the proof is the one the notary signed, untouched
Honest ==
    proof = capture_proof(origin.notary, origin.domain, origin.timestamp,
                          origin.cert_chain_pem, origin.response_body)

\* the exact (unbounded) sum x + y, as five limbs
exact_sum(x, y) == <<add_carry(x, y).carry>> \o add_carry(x, y).sum

\* x > y + z over the unbounded integers
exceeds_sum(x, y, z) == limbs_lt(exact_sum(y, z), <<0>> \o x)

\* the six conditions, over the unbounded integers
DomainOk == proof.domain = call.expected_domain

TooOld == exceeds_sum(call.current_time, proof.timestamp, call.max_age_secs)

FromFuture ==
    exceeds_sum(proof.timestamp, call.current_time, u64(MAX_FUTURE_SKEW_SECS))

CertOk == sha256_hex(call.cert_chain_pem) = proof.cert_chain_hash

BodyOk == sha256_hex(call.response_body) = proof.response_hash

SigOk == verify_signature(proof, challenges) = Ok

\* both freshness sums fit in 64 bits
SumsFit ==
    /\ add_carry(proof.timestamp, call.max_age_secs).carry = 0
    /\ add_carry(call.current_time, u64(MAX_FUTURE_SKEW_SECS)).carry = 0

\* the error of the earliest violated check, in the documented order
EarliestViolation ==
    IF ~DomainOk THEN DomainMismatch(call.expected_domain, proof.domain)
    ELSE IF TooOld THEN ReplayDetected(proof.timestamp, call.max_age_secs)
    ELSE IF FromFuture THEN SignatureInvalid("Timestamp is in the future")
    ELSE IF ~CertOk THEN CertChainMismatch
    ELSE IF ~BodyOk THEN ResponseTampered
    ELSE verify_signature(proof, challenges)

ViolatedChecks ==
    {c \in {"domain", "too old", "future", "cert", "body", "signature"} :
        \/ c = "domain" /\ ~DomainOk
        \/ c = "too old" /\ TooOld
        \/ c = "future" /\ FromFuture
        \/ c = "cert" /\ ~CertOk
        \/ c = "body" /\ ~BodyOk
        \/ c = "signature" /\ ~SigOk}

\* C4: the checks run in the order domain, too old, future skew, cert
\* hash, response hash, signature; when several are violated at once the
\* error returned is that of the earliest violated one.
C4_EarliestViolatedCheckWins ==
    (Called /\ Cardinality(ViolatedChecks) >= 2) => result = EarliestViolation

\* the part of C4 the code does meet: the order, when the sums fit
C4_EarliestWinsWhenSumsFit ==
    (Called /\ SumsFit /\ Cardinality(ViolatedChecks) >= 2)
    => result = EarliestViolation

\* the call presents what the notary witnessed
PresentsWitnessed ==
    /\ call.expected_domain = origin.domain
    /\ call.cert_chain_pem = origin.cert_chain_pem
    /\ call.response_body = origin.response_body

\* C5: an honestly signed proof verifies with the witnessed domain, cert
\* and body at every current time t with t <= timestamp + max_age.
C5_OkUntilMaxAge ==
    (Called /\ Honest /\ PresentsWitnessed /\ ~TooOld) => result = Ok

\* the same with the future-skew check of verify taken into the
\* statement (timestamp <= t + 300): the code does not meet it either
C5_OkInsideWindow ==
    (Called /\ Honest /\ PresentsWitnessed /\ ~TooOld /\ ~FromFuture)
    => result = Ok

\* the part of C5 the code does meet
C5_OkWhenSumsFit ==
    (Called /\ Honest /\ PresentsWitnessed /\ SumsFit /\ ~TooOld /\ ~FromFuture)
    => result = Ok

\* C6: verify returns Ok exactly when all six conditions hold, and in
\* every other case one of the five ZkTlsError kinds.
C6_AllOrNothing ==
    Called =>
        /\ result = Ok <=> (DomainOk /\ ~TooOld /\ ~FromFuture /\ CertOk
                            /\ BodyOk /\ SigOk)
        /\ result.kind \in {"Ok", "DomainMismatch", "CertChainMismatch",
                            "ResponseTampered", "ReplayDetected",
                            "SignatureInvalid"}

\* the part of C6 the code does meet
C6_AllOrNothingWhenSumsFit ==
    (Called /\ (SumsFit \/ ~DomainOk)) =>
        /\ result = Ok <=> (DomainOk /\ ~TooOld /\ ~FromFuture /\ CertOk
                            /\ BodyOk /\ SigOk)
        /\ result.kind \in {"Ok", "DomainMismatch", "CertChainMismatch",
                            "ResponseTampered", "ReplayDetected",
                            "SignatureInvalid"}

\* C7: with a matching domain, verify returns
\* ReplayDetected{timestamp, max_age} exactly when
\* current_time > timestamp + max_age.
C7_ReplayExactlyWhenTooOld ==
    (Called /\ DomainOk) =>
        (result = ReplayDetected(proof.timestamp, call.max_age_secs) <=> TooOld)

\* the part of C7 the code does meet
C7_ReplayWhenSumFits ==
    (Called /\ DomainOk
        /\ add_carry(proof.timestamp, call.max_age_secs).carry = 0) =>
        (result = ReplayDetected(proof.timestamp, call.max_age_secs) <=> TooOld)

\* C8: a proof whose domain, hashes and signature are valid is rejected
\* with SignatureInvalid when timestamp > current_time + 300, and is not
\* rejected for its timestamp when timestamp = current_time + 300.
C8_FutureSkewBoundary ==
    (Called /\ DomainOk /\ CertOk /\ BodyOk /\ SigOk) =>
        /\ FromFuture => result.kind = "SignatureInvalid"
        /\ exact_sum(call.current_time, u64(MAX_FUTURE_SKEW_SECS))
              = <<0>> \o proof.timestamp
           => result = Ok

\* the part of C8 the code does meet
C8_FutureSkewWhenSumsFit ==
    (Called /\ SumsFit /\ DomainOk /\ CertOk /\ BodyOk /\ SigOk) =>
        /\ FromFuture => result = SignatureInvalid("Timestamp is in the future")
        /\ exact_sum(call.current_time, u64(MAX_FUTURE_SKEW_SECS))
              = <<0>> \o proof.timestamp
           => result = Ok

\* C9: for an honest proof, the right domain and a time inside the
\* freshness window, a body one byte off yields ResponseTampered and a
\* certificate chain one byte off yields CertChainMismatch.
C9_ByteFlipDetected ==
    (Called /\ Honest /\ DomainOk /\ ~TooOld /\ ~FromFuture) =>
        /\ call.cert_chain_pem # origin.cert_chain_pem
           => result = CertChainMismatch
        /\ (call.cert_chain_pem = origin.cert_chain_pem
            /\ call.response_body # origin.response_body)
           => result = ResponseTampered

\* the part of C9 the code does meet
C9_ByteFlipWhenSumsFit ==
    (Called /\ SumsFit /\ Honest /\ DomainOk /\ ~TooOld /\ ~FromFuture) =>
        /\ call.cert_chain_pem # origin.cert_chain_pem
           => result = CertChainMismatch
        /\ (call.cert_chain_pem = origin.cert_chain_pem
            /\ call.response_body # origin.response_body)
           => result = ResponseTampered

\* C10: whenever expected_domain differs from proof.domain, verify returns
\* DomainMismatch with `expected` the caller's domain and `got` the
\* proof's, whatever the other arguments are.
C10_DomainMismatchFields ==
    (Called /\ call.expected_domain # proof.domain) =>
        result = [kind |-> "DomainMismatch",
                  expected |-> call.expected_domain,
                  got |-> proof.domain]

\* a wrong domain reported although the proof is also too old, the
\* certificate is also wrong and a freshness sum overflows
C10_Witness ==
    /\ Called
    /\ call.expected_domain # proof.domain
    /\ TooOld /\ ~CertOk /\ ~SumsFit
    /\ result.kind = "DomainMismatch"
    /\ result.expected = call.expected_domain
    /\ result.got = proof.domain

(***************************************************************************)
(* Properties of the signature check                                       *)
(***************************************************************************)
\* the two freshness checks let the proof through, as verify evaluates
\* them in this build
FreshnessPasses ==
    LET deadline == add_carry(proof.timestamp, call.max_age_secs)
        horizon  == add_carry(call.current_time, u64(MAX_FUTURE_SKEW_SECS))
    IN /\ ~(overflow_checks /\ deadline.carry = 1)
       /\ ~limbs_lt(deadline.sum, call.current_time)
       /\ ~(overflow_checks /\ horizon.carry = 1)
       /\ ~limbs_lt(horizon.sum, proof.timestamp)

\* the message the proof's own fields spell out
ProofMessage ==
    canonical_message(proof.domain, proof.timestamp, proof.response_hash,
                      proof.cert_chain_hash)

\* the proof with bit b of its signature flipped
WithBitFlipped(b) ==
    [proof EXCEPT !.signature = hex_encode(64, flip_bit(@.val, b))]

\* the signature of p is known to verify: its challenge, where the check
\* turns on one, has been computed
KnownToVerify(p) ==
    /\ asks_challenge(p) => challenge_input(p) \in DOMAIN challenges
    /\ verify_signature(p, challenges) = Ok

\* the signature is one bit away from a signature that verifies for the
\* same key and fields
SignatureAltered ==
    /\ holds_signature(proof)
    /\ \E b \in SigBits : KnownToVerify(WithBitFlipped(b))

\* the signature is one bit away from the one a notary made for these
\* fields, under that notary's key
NotarySignatureAltered ==
    /\ holds_signature(proof)
    /\ \E b \in SigBits : \E n \in Notaries :
          /\ WithBitFlipped(b).signature
                = hex_encode(64, to_bytes(sign(n, ProofMessage)))
          /\ proof.notary_pubkey = hex_encode(32, verifying_key(n))

\* a notary signed exactly this proof, and notary_pubkey names another one
KeyReplaced ==
    \E n \in Notaries : \E m \in Notaries \ {n} :
        /\ proof.signature = hex_encode(64, to_bytes(sign(n, ProofMessage)))
        /\ proof.notary_pubkey = hex_encode(32, verifying_key(m))

\* notary_pubkey is not hex of exactly 32 bytes, or signature is not hex
\* of exactly 64 bytes
Malformed ==
    \/ ~proof.notary_pubkey.hex
    \/ proof.notary_pubkey.len # 32
    \/ ~proof.signature.hex
    \/ proof.signature.len # 64

\* C11: when the domain, the freshness checks and both hashes pass, a
\* proof whose signature is a verifying one with a bit flipped, or whose
\* notary_pubkey is another notary's key, yields SignatureInvalid; so does
\* one whose notary_pubkey is not hex of exactly 32 bytes or whose
\* signature is not hex of exactly 64 bytes, and such a proof is accepted
\* by no call at all.
C11_BadSignatureRejected ==
    Called =>
        /\ (DomainOk /\ FreshnessPasses /\ CertOk /\ BodyOk
            /\ (SignatureAltered \/ KeyReplaced \/ Malformed))
           => result.kind = "SignatureInvalid"
        /\ Malformed => result # Ok

\* the part of C11 the code does meet: the signature altered is a
\* notary's, under that notary's key
C11_NotarySignatureRejected ==
    Called =>
        /\ (DomainOk /\ FreshnessPasses /\ CertOk /\ BodyOk
            /\ (NotarySignatureAltered \/ KeyReplaced \/ Malformed))
           => result.kind = "SignatureInvalid"
        /\ Malformed => result # Ok

(***************************************************************************)
(* Properties of NotarySigner and of POST /api/generate-proof              *)
(***************************************************************************)
\* the notary's own address
NotaryAddress == address_of(NotaryKey)

\* the employee the issued proof was asked for, as 20 bytes
IssuedEmployee == Address_from_str(issued.employee_address).bytes

\* the recovery was run on the issued proof's own salary / timestamp
RecoversIssuedSalary ==
    recovery.salary
      = U256_from(u64(from_dec_str(issued.result.proof.salary)))

RecoversIssuedTimestamp ==
    recovery.timestamp = issued.result.proof.timestamp

\* C13: a proof returned by generate_proof(employee_address) binds its
\* fields: the signer recovered from the EIP-191 hash of
\* create_message_hash(employee, proof.salary, proof.timestamp) and
\* proof.signature is the notary's address, which is what
\* proof.notary_pubkey spells; recovered against the hash of a different
\* salary it is not the notary's address.
C13_ProofBindsFields ==
    (recovery.kind = "done" /\ recovery.employee = IssuedEmployee
     /\ RecoversIssuedTimestamp) =>
        /\ RecoversIssuedSalary =>
              /\ recovery.recovered = NotaryAddress
              /\ hex_0x(recovery.recovered)
                   = issued.result.proof.notary_pubkey
        /\ ~RecoversIssuedSalary => recovery.recovered # NotaryAddress

\* the notary recovered from a proof issued for the mixed-case test address
C13_Witness ==
    /\ recovery.kind = "done"
    /\ issued.employee_address = TestEmployee
    /\ recovery.employee = IssuedEmployee
    /\ RecoversIssuedTimestamp
    /\ RecoversIssuedSalary
    /\ recovery.recovered = NotaryAddress

\* the bytes a logged create_message_hash call hashed
HashedBytes(h) == h.hash[2]

\* bytes lo+1 .. lo+32 of `bytes` spell `value` most significant byte first
BigEndianAt(bytes, lo, value) ==
    \A k \in 1..16 :
        256 * bytes[lo + 2 * k - 1] + bytes[lo + 2 * k] = value[k]

\* C14: create_message_hash hashes exactly 84 bytes: bytes 0..20 are the
\* address, bytes 20..52 the salary as 32 bytes big-endian, bytes 52..84
\* the timestamp as 32 bytes big-endian.
C14_PackedLayout ==
    \A i \in 1..Len(hash_log) :
        LET h == hash_log[i]
            bytes == HashedBytes(h)
        IN /\ h.hash[1] = "keccak256"
           /\ Len(bytes) = 84
           /\ \A b \in 1..84 : bytes[b] \in 0..255
           /\ SubSeq(bytes, 1, 20) = h.employee
           /\ BigEndianAt(bytes, 20, h.salary)
           /\ BigEndianAt(bytes, 52, h.timestamp)

\* a salary and a timestamp whose 32 bytes all differ, hashed for the
\* test address
C14_Witness ==
    \E i \in 1..Len(hash_log) :
        /\ hash_log[i].salary = WideU256
        /\ hash_log[i].timestamp = U256_from(u64(1700000000))
        /\ hash_log[i].employee = Address_from_str(TestEmployee).bytes
        /\ Len(HashedBytes(hash_log[i])) = 84

\* C15: create_message_hash is pure: two calls with the same inputs give
\* the same hash, and two calls that differ only in the salary, or only
\* in the timestamp, give different hashes.
C15_HashDeterministicAndBinding ==
    \A i \in 1..Len(hash_log), j \in 1..Len(hash_log) :
        LET a == hash_log[i]
            b == hash_log[j]
        IN /\ (a.employee = b.employee /\ a.salary = b.salary
               /\ a.timestamp = b.timestamp) => a.hash = b.hash
           /\ (a.employee = b.employee /\ a.salary # b.salary
               /\ a.timestamp = b.timestamp) => a.hash # b.hash
           /\ (a.employee = b.employee /\ a.salary = b.salary
               /\ a.timestamp # b.timestamp) => a.hash # b.hash

\* two calls one second apart, and nothing else changed
C15_Witness ==
    /\ Len(hash_log) >= 2
    /\ hash_log[1].employee = hash_log[2].employee
    /\ hash_log[1].salary = hash_log[2].salary
    /\ hash_log[1].timestamp = U256_from(u64(1700000000))
    /\ hash_log[2].timestamp = U256_from(u64(1700000001))
    /\ hash_log[1].hash # hash_log[2].hash

\* "0x" followed by 40 hex characters
WellFormedAddress(a) ==
    /\ Len(a) = 42
    /\ a[1] = "0"
    /\ a[2] = "x"
    /\ \A i \in 3..42 : hex_val(a[i]) >= 0

\* C16: POST /api/generate-proof answers every request whose
\* employee_address is anything other than "0x" and 40 hex characters with
\* status 400 and signs nothing; it answers 500 only when signing fails;
\* every other request gets an STLOPProof.
C16_StatusByAddressFormat ==
    http.kind = "response" =>
        /\ ~WellFormedAddress(http.employee_address)
           => (http.status = 400 /\ http.signed = {})
        /\ http.status = 500 => http.err = "SigningFailed"
        /\ (WellFormedAddress(http.employee_address) /\ http.status # 500)
           => (http.status = 200 /\ http.body # None)

\* the part of C16 the handler does meet: 400 is decided by the prefix
\* and the byte length alone, nothing is signed for a malformed address,
\* and a proof is returned only for a well-formed one
C16_StatusByPrefixAndLength ==
    http.kind = "response" =>
        /\ http.status = 400
           <=> (~starts_with(http.employee_address, <<"0", "x">>)
                \/ str_len(http.employee_address) # 42)
        /\ ~WellFormedAddress(http.employee_address)
           => (http.status \in {400, 500} /\ http.signed = {})
        /\ http.status = 200
           => (WellFormedAddress(http.employee_address) /\ http.body # None)
        /\ (http.status = 500 /\ WellFormedAddress(http.employee_address))
           => http.err = "SigningFailed"

(***************************************************************************)
(* Properties of RwaClaim, the guest and SchemaValidator                   *)
(***************************************************************************)
\* the claim in hand and the earlier one both passed the guest's checks
\* and both have their public values
BothCommitted ==
    /\ earlier.kind = "snapshot"
    /\ earlier.guest.kind = "committed"
    /\ guest.kind = "committed"
    /\ public_values # None

\* bytes spell `value` least significant byte first
LittleEndian(bytes, value) ==
    /\ Len(bytes) = 8
    /\ \A k \in 1..4 : bytes[2 * k - 1] + 256 * bytes[2 * k] = value[5 - k]

\* C17: the public output holds only institutional_pubkey and threshold:
\* two claims that agree on both and pass the guest's checks have the same
\* RwaPublicValues and the same journal, whatever their balances and
\* signatures.
C17_PublicOutputHidesBalance ==
    /\ guest.kind = "committed" =>
          /\ Len(guest.journal) = 2
          /\ guest.journal[1] = <<"commit", rwa_claim.institutional_pubkey>>
          /\ guest.journal[2][1] = "commit"
          /\ LittleEndian(guest.journal[2][2][2], rwa_claim.threshold)
    /\ (BothCommitted
        /\ earlier.claim.institutional_pubkey = rwa_claim.institutional_pubkey
        /\ earlier.claim.threshold = rwa_claim.threshold) =>
          /\ guest.journal = earlier.guest.journal
          /\ public_values = earlier.public_values

\* two compliant claims of one institution with different balances and
\* signatures, and one journal
C17_Witness ==
    /\ BothCommitted
    /\ earlier.claim.institutional_pubkey = rwa_claim.institutional_pubkey
    /\ earlier.claim.threshold = rwa_claim.threshold
    /\ earlier.claim.balance # rwa_claim.balance
    /\ earlier.claim.signature # rwa_claim.signature
    /\ guest.journal = earlier.guest.journal
    /\ public_values = earlier.public_values

\* the texts of the three warnings
WarningTexts ==
    { "Institutional pubkey appears to be placeholder",
      "Signature appears to be placeholder",
      "Balance exceeds $1 billion - please verify" }

Range(f) == {f[i] : i \in DOMAIN f}

\* C18: validate returns is_valid = true exactly when balance != 0 and
\* threshold <= balance; an all-zero pubkey, an all-zero signature and a
\* balance above 100_000_000_000 each put a warning into `warnings`, and
\* none of them changes is_valid or adds to `errors`.
C18_ValidIffBalanceCoversThreshold ==
    validation.kind = "result" =>
        /\ validation.is_valid
           <=> (rwa_claim.balance # u64(0)
                /\ ~limbs_lt(rwa_claim.balance, rwa_claim.threshold))
        /\ Range(validation.errors) \cap WarningTexts = {}
        /\ validation.is_valid => validation.errors = << >>
        /\ "Institutional pubkey appears to be placeholder"
             \in Range(validation.warnings)
           <=> rwa_claim.institutional_pubkey = ZERO_PUBKEY
        /\ "Signature appears to be placeholder"
             \in Range(validation.warnings)
           <=> rwa_claim.signature = ZERO_SIGNATURE
        /\ "Balance exceeds $1 billion - please verify"
             \in Range(validation.warnings)
           <=> limbs_lt(LARGE_BALANCE, rwa_claim.balance)
        /\ Range(validation.warnings) \subseteq WarningTexts

\* a claim with all three warnings that is valid all the same
C18_Witness ==
    /\ validation.kind = "result"
    /\ Len(validation.warnings) = 3
    /\ validation.errors = << >>
    /\ validation.is_valid

\* C19: message_to_sign() is the 8-byte little-endian encoding of
\* balance, whatever the other fields are, and it is the message over
\* which the guest checks the institution's signature.
C19_MessageIsLittleEndianBalance ==
    to_sign.kind = "message" =>
        /\ LittleEndian(to_sign.bytes, rwa_claim.balance)
        /\ guest # None => guest.message = to_sign.bytes
        /\ (earlier.kind = "snapshot"
            /\ earlier.claim.balance = rwa_claim.balance)
           => earlier.to_sign = to_sign

\* the message of a balance whose bytes are no palindrome, also checked
\* by the guest, after an earlier claim of the same balance that differs
\* in another field
C19_Witness ==
    /\ to_sign.kind = "message"
    /\ rwa_claim.balance = wrapping_add(LARGE_BALANCE, u64(1))
    /\ guest.kind = "committed"
    /\ guest.message = to_sign.bytes
    /\ earlier.kind = "snapshot"
    /\ earlier.claim.balance = rwa_claim.balance
    /\ earlier.claim # rwa_claim

(***************************************************************************)
(* Properties of the Merkle credentials                                    *)
(***************************************************************************)
\* the ledger the emitted credentials were built from
Ledger ==
    IF creds.leaf_index = 3 THEN leaf_values(creds.balance) ELSE users

\* C20: for the ten-leaf tree with leaves sha256(balance as 8 bytes
\* little-endian), the proof emitted for the claim's leaf_index recombines
\* with the claim's leaf to the emitted merkle_root, and no longer does
\* once the leaf index or any single proof hash is altered.
C20_ProofBindsLeafAndIndex ==
    merkle_ok # "none" =>
        /\ presented.altered = "nothing" => merkle_ok = "true"
        /\ presented.altered # "nothing" => merkle_ok = "false"

\* the part of C20 the generators do meet: the emitted proof recombines
\* to the root, an altered proof hash never does, and an altered leaf
\* index does not when the account at that index has another balance
C20_BindsWhenBalancesDiffer ==
    merkle_ok # "none" =>
        /\ presented.altered = "nothing" => merkle_ok = "true"
        /\ presented.altered = "proof_hash" => merkle_ok = "false"
        /\ (presented.altered = "leaf_index"
            /\ Ledger[presented.leaf_index + 1] # creds.balance)
           => merkle_ok = "false"

(***************************************************************************)
(* Properties of the audit trail under its own operations                  *)
(***************************************************************************)
\* C21: after any sequence of add_entry calls the i-th entry (0-based)
\* carries nonce i, so nonces are unique and consecutive, and the first
\* entry's previous_hash is all-zero.
C21_NonceIsPosition ==
    /\ \A i \in 1..Len(entries) : entries[i].nonce = i - 1
    /\ \A i, j \in 1..Len(entries) :
          i # j => entries[i].nonce # entries[j].nonce
    /\ entries # << >> => entries[1].previous_hash = ZERO_HASH

C21_Witness ==
    /\ Len(entries) = 3
    /\ entries[3].nonce = 2
    /\ entries[1].previous_hash = ZERO_HASH

\* the step is a call of add_entry: the stored entries or the trail
\* digest are no longer what they were
AddEntryStep == entries' # entries \/ trail_hash' # trail_hash

\* C22: the trail is append-only.  Each add_entry makes len() one larger,
\* puts the new entry last and leaves every earlier entry as it was;
\* verify_integrity, export_json, len and is_empty leave the entries and the
\* trail digest alone; no step changes created_at.
C22_AppendOnly ==
    [][ /\ created_at' = created_at
        /\ AddEntryStep =>
             /\ trail_len(entries') = trail_len(entries) + 1
             /\ SubSeq(entries', 1, Len(entries)) = entries
        /\ (integrity' # integrity /\ integrity' # "none") =>
             UNCHANGED <<entries, trail_hash>>
        /\ observed' # NoQuery => UNCHANGED <<entries, trail_hash>>
      ]_vars

C22_Witness ==
    /\ Len(entries) = 2
    /\ observed.op = "len"
    /\ observed.value = 2
    /\ integrity = "true"

(***************************************************************************)
(* Properties of the ZkInputBuilder                                        *)
(***************************************************************************)
\* the blobs of one kind among those handed over, in the order handed
RECURSIVE BlobsOf(_, _)
BlobsOf(acc, kind) ==
    IF acc = << >> THEN << >>
    ELSE (IF Head(acc).kind = kind THEN <<Head(acc).blob>> ELSE << >>)
         \o BlobsOf(Tail(acc), kind)

\* the builder after `blobs` are added one call at a time
RECURSIVE OneAtATime(_, _, _)
OneAtATime(self, kind, blobs) ==
    IF blobs = << >> THEN self
    ELSE OneAtATime(IF kind = "public" THEN add_public_data(self, Head(blobs))
                                       ELSE add_secret(self, Head(blobs)),
                    kind, Tail(blobs))

\* C24: the bytes build() returns decode to exactly the public blobs and
\* exactly the secret blobs handed to the builder, each list in the order
\* handed over, whether they came one at a time or in a batch; a batch
\* call leaves the builder as the one-at-a-time calls would.
C24_BuildDecodesToAccumulated ==
    [][ /\ built'.kind = "bytes" =>
             LET d == bincode_deserialize(built'.bytes)
             IN /\ d.ok
                /\ d.public_data = BlobsOf(accumulated', "public")
                /\ d.secrets = BlobsOf(accumulated', "secret")
        /\ last_op'.op = "add_public_data_batch" =>
             builder' = OneAtATime(builder, "public", last_op'.arg)
        /\ last_op'.op = "add_secrets_batch" =>
             builder' = OneAtATime(builder, "secret", last_op'.arg)
      ]_vars

\* both kinds were handed over, a batch among them, and the builder built
C24_Witness ==
    /\ built.kind = "bytes"
    /\ BlobsOf(accumulated, "public") = << <<4, 5, 6>>, <<1, 2, 3>> >>
    /\ BlobsOf(accumulated, "secret") = << <<1, 2, 3>> >>
    /\ bincode_deserialize(built.bytes).secrets = << <<1, 2, 3>> >>

\* C26: right after clear() both counts are 0; a build() on a cleared
\* builder returns what it returns on a new one; and what is added after
\* a clear() accumulates from empty.
C26_ClearResets ==
    [][ /\ last_op'.op = "clear" =>
             /\ public_data_count(builder') = 0
             /\ secrets_count(builder') = 0
        /\ (last_op'.cleared /\ accumulated' = << >> /\ built'.kind = "bytes") =>
             built'.bytes = build(ZkInputBuilder_new)
        /\ last_op'.cleared =>
             /\ public_data' = BlobsOf(accumulated', "public")
             /\ [i \in 1..Len(secrets') |-> expose_secret(secrets'[i])]
                  = BlobsOf(accumulated', "secret")
      ]_vars

\* a builder that held both kinds was cleared, handed one blob, and built
C26_Witness ==
    /\ last_op.cleared
    /\ last_op.op = "build"
    /\ accumulated = << [kind |-> "secret", blob |-> <<4, 5, 6>>] >>
    /\ public_data_count(builder) = 0
    /\ secrets_count(builder) = 1

(***************************************************************************)
(* Properties of the guest program's order of steps                        *)
(***************************************************************************)
\* what the guest was given deserialises to a claim whose signature
\* verifies and whose balance covers the threshold
InputCompliant ==
    LET d == try_from_slice(zk_stdin)
    IN /\ d.ok
       /\ verify_ed25519(d.claim.signature, d.claim.institutional_pubkey,
                         to_le_bytes(d.claim.balance))
       /\ ~limbs_lt(d.claim.balance, d.claim.threshold)

\* C27: the guest commits only after it has deserialised the claim, then
\* verified the signature, then checked balance >= threshold, in that
\* order; when the input does not deserialise, the signature is invalid
\* or the balance is below the threshold it panics with nothing
\* committed, and the host gets an error and no public values.
C27_CommitsOnlyAfterChecks ==
    /\ zk_journal # << >> =>
          /\ Len(zk_trace) >= 4
          /\ SubSeq(zk_trace, 1, 3)
               = <<"deserialized", "signature verified", "threshold met">>
          /\ InputCompliant
    /\ (zk_pc \in {"exited", "panicked"} /\ ~InputCompliant) =>
          /\ zk_pc = "panicked"
          /\ zk_journal = << >>
    /\ zk_pc = "panicked" => zk_journal = << >>
    /\ zk_pc = "exited" =>
          /\ guest_main(zk_claim).kind = "committed"
          /\ zk_journal = guest_main(zk_claim).journal
    /\ receipt # None =>
          /\ receipt.kind = "Ok" <=> InputCompliant
          /\ receipt.public_values = zk_journal

\* a run that committed both values and returned a receipt
C27_Witness ==
    /\ receipt # None
    /\ receipt.kind = "Ok"
    /\ Len(zk_journal) = 2
    /\ zk_trace[5] = "committed threshold"

(***************************************************************************)
(* Properties of the freshness arithmetic                                  *)
(***************************************************************************)
\* C29: for every u64 timestamp, max_age_secs and current_time the sums
\* timestamp + max_age_secs and current_time + 300 stay within 64 bits,
\* so verify returns Ok or a ZkTlsError and decides every check as the
\* comparison over the unbounded integers does.
C29_FreshnessSumsNeverOverflow ==
    Called =>
        /\ result.kind # "panic"
        /\ result = EarliestViolation

\* what the code does meet: when both sums fit, verify decides as the
\* unbounded comparisons do and never panics
C29_ExactWhenSumsFit ==
    (Called /\ SumsFit) =>
        /\ result.kind # "panic"
        /\ result = EarliestViolation

(***************************************************************************)
(* Properties of the Stellar verifier's initialisation                     *)
(***************************************************************************)
\* C30: the Stellar verifier is initialised at most once.  An initialize
\* on an initialised contract panics and leaves the admin, the
\* verification key and the count as they were; a verify_proof on a
\* contract that is not initialised panics and changes no count.
C30_InitializedAtMostOnce ==
    [][ /\ (invocation'.fn = "initialize" /\ has(storage, "init")) =>
             /\ invocation'.outcome = Trapped("Already initialized")
             /\ storage' = storage
        /\ (invocation'.fn = "initialize" /\ ~has(storage, "init")) =>
             /\ invocation'.outcome.kind = "returned"
             /\ get(storage', "admin") = invocation'.args[1]
             /\ get(storage', "vkey") = invocation'.args[2]
             /\ get_verification_count(storage') = Returned(0)
        /\ has(storage, "init") =>
             /\ has(storage', "init")
             /\ storage'["admin"] = storage["admin"]
             /\ storage'["vkey"] = storage["vkey"]
        /\ (invocation'.fn = "verify_proof" /\ ~has(storage, "init")) =>
             /\ invocation'.outcome = Trapped("Not initialized")
             /\ storage' = storage
             /\ events' = events
             /\ get_verification_count(storage') = Returned(0)
      ]_vars

\* an initialised contract that has counted a verification refused a
\* second initialize naming another admin
C30_Witness ==
    /\ invocation # None
    /\ invocation.fn = "initialize"
    /\ invocation.outcome.kind = "panic"
    /\ get(storage, "admin") # invocation.args[1]
    /\ get(storage, "count") = 1

(***************************************************************************)
(* Properties of the MCP server and the trail it owns                      *)
(***************************************************************************)
\* C23: appends to one trail are serialized.  However the callers'
\* requests interleave, at most one add_entry is under way at a time, so
\* its four steps (read the last hash, read the count, push, recompute
\* the trail hash) run uninterrupted: no two entries get the same nonce
\* or the same previous_hash, every nonce is the entry's position, and
\* once no call is under way the chain verifies.
C23_AppendsSerialized ==
    /\ Cardinality(frames) <= 1
    /\ \A i, j \in 1..Len(entries) :
          i # j => /\ entries[i].nonce # entries[j].nonce
                   /\ entries[i].previous_hash # entries[j].previous_hash
    /\ \A i \in 1..Len(entries) : entries[i].nonce = i - 1
    /\ (frames = {} /\ entries # << >>) => verify_integrity(entries, trail_hash)

\* two callers had a claim each extracted and recorded
C23_Witness ==
    /\ Len(entries) = 2
    /\ frames = {}
    /\ Len(responses) = 2
    /\ responses[1].user # responses[2].user
    /\ responses[1].result.success /\ responses[2].result.success

\* a claim the validator finds a structural error in (validator.rs:25-33)
StructuralError(claim) == validate(claim).errors # << >>

\* the claims extract_claim can come to for the explored requests
ExtractableClaims ==
    { [extract(a.raw_data).value.claim EXCEPT !.threshold = a.threshold] :
        a \in {args \in ToolArgs : /\ args.raw_data # JsonNull
                                    /\ args.threshold # JsonNull
                                    /\ extract(args.raw_data).kind = "Ok"} }

\* C28: a claim with a structural error (zero balance, threshold above
\* balance) is never returned as a success by extract_claim and never
\* recorded in the audit trail as an extracted claim, whatever raw_data
\* and threshold the caller sends.
C28_NoInvalidClaimExtracted ==
    /\ \A i \in 1..Len(responses) :
          responses[i].result.success
          => ~StructuralError(responses[i].result.data.claim)
    /\ \A i \in 1..Len(entries) :
          entries[i].action = "ExtractClaim"
          => \A c \in ExtractableClaims :
                StructuralError(c)
                => entries[i].output_hash # sha256(claim_to_vec(c))

\* what the server does meet: a claim returned as a success is the one
\* extracted from the caller's text with the caller's threshold put in,
\* and every success has been recorded in the trail
C28_ReturnedAsExtracted ==
    /\ \A i \in 1..Len(responses) :
          responses[i].result.success
          => responses[i].result.data.claim \in ExtractableClaims
    /\ Cardinality({i \in 1..Len(responses) : responses[i].result.success})
         + Cardinality({f \in frames : f.pc = "trail_hash"}) = Len(entries)

====
